---- MODULE Spec2Model ----
(***************************************************************************)
(* PaperTrail board synchronisation core.                                  *)
(*                                                                         *)
(*  - the version-tagged board store: the GET / POST / PUT handlers of     *)
(*    /boards/:projectId of the plugin router, each handler split at its   *)
(*    awaits, any number of requests interleaved (SpecStore);              *)
(*  - the sync client: createSaver (schedule / flush / forceFlush /        *)
(*    setVersion, debounce and retry timers) with the view's onConflict    *)
(*    and applyRemoteSnapshot, against the same store (SpecSaver).         *)
(***************************************************************************)
EXTENDS Integers, Sequences, FiniteSets, TLC

VARIABLES
  \* ---- server: the database and the clock
  board,        \* <<>> when no papertrailBoard row exists, else <<row>>
  now,          \* the server clock, in ticks (never goes back)
  \* ---- server: HTTP requests being handled (SpecStore)
  reqs,         \* request id -> handler activation
  putLog,       \* history: the 200 responses of PUT, in completion order
  \* ---- client: the view (Flow) and its saver (createSaver)
  view,           \* the nodes/edges shown (a snapshot body)
  effectDue,      \* the debounced-save effect is due (nodes/edges/loading changed)
  boardVersionRef,\* boardVersionRef.current
  cache,          \* the localStorage entry of the board: <<>> or <<entry>>
  hasOnConflict,  \* whether createSaver was given an onConflict callback
  timerLive,      \* number of live debounce timers
  lastVersion,    \* createSaver: lastVersion
  pending,        \* createSaver: pending, <<>> (null) or <<snapshot>>
  busy,           \* createSaver: busy
  retryTimer,     \* createSaver: retryTimer is non-null
  retryLive,      \* the live retry timers, each by its delay in ms
  flights,        \* the activations of flush() suspended at an await
  wire,           \* update notifications of other clients not yet delivered
  loading,        \* Flow: the loading state (true until hydrate ends)
  hyd,            \* where hydrate() is: "mount", "fetch", "create", or how it
                  \* ended: "ok", "created", "missing", "failed"
  hadCachedSnapshot, \* hydrate: hadCachedSnapshot
  \* ---- client: the realtime socket; the hub (SpecChannel)
  ws,             \* the socket of wsRef: its number and readyState
  reconnectTimer, \* ref: reconnectTimerRef.current is non-null;
                  \* live: number of reconnect timers that will fire
  pendingUpdates, \* pendingUpdatesRef.current: packets queued for the next open
  up,             \* connection -> frames sent to the hub, not yet handled
  subs,           \* the hub: project id -> connections subscribed to its channel
  down,           \* frames the hub has sent to connections, not yet received
  \* ---- client: history
  sent,           \* the last saveBoard (PUT) call of the saver: <<>> or <<call>>
  prevSid,        \* schedule call number of the snapshot of the PUT before it
  nPuts,          \* number of saveBoard calls so far
  schedNo,        \* number of schedule() calls so far
  winStart,       \* schedule call number that opened the last debounce window
  failed,         \* payload of the last flush that failed on the network,
                  \* until the next schedule() or PUT: <<>> or <<payload>>
  conflictTag,    \* tag of the last PUT answered 409, until the next PUT
  forced,         \* schedule call number of the snapshot that was pending when
                  \* forceFlush() found a flush in flight, until that snapshot
                  \* leaves in a PUT or a newer one is scheduled; else 0
  nEnv,           \* number of environment events so far
  \* ---- the browser's localStorage; calls of functions checked on their own
  localStorage,   \* key -> the string stored under it, <<>> when there is none
  call            \* the last call: the function, its arguments, its result

svars == <<board, now, reqs, putLog>>
cvars == <<view, effectDue, boardVersionRef, cache, hasOnConflict, timerLive,
           lastVersion, pending, busy, retryTimer, retryLive, flights, wire,
           loading, hyd, hadCachedSnapshot,
           ws, reconnectTimer, pendingUpdates, up, subs, down,
           sent, prevSid, nPuts, schedNo, winStart, failed, conflictTag, forced,
           nEnv, localStorage, call>>
vars == <<board, now, reqs, putLog, view, effectDue, boardVersionRef, cache,
          hasOnConflict, timerLive, lastVersion, pending, busy, retryTimer,
          retryLive, flights, wire, loading, hyd, hadCachedSnapshot,
          ws, reconnectTimer, pendingUpdates, up, subs, down,
          sent, prevSid, nPuts, schedNo, winStart, failed,
          conflictTag, forced, nEnv, localStorage, call>>

----------------------------------------------------------------------------
\* Bounds of the model.

\* HTTP requests handled in one run of SpecStore
MaxReqs == 3
\* ticks of the server clock
MaxClock == 1
\* events of the saver's environment in one run of SpecSaver: user edits,
\* writes of other clients and network failures together
MaxEnv == 2

\* createSaver's retry delay, in ms
RETRY_MS == 5000

----------------------------------------------------------------------------
\* Values.

\* A version tag is the string `${updatedAt ISO}:${version}`.  It is kept as
\* the pair it is formatted from; TagChars gives the characters.
NoTag == [ts |-> -1, n |-> -1]
\* a tag no write of the store ever produced
ForgedTag == [ts |-> 0, n |-> 77]

NoTitle == "-"

Node(id, data) == [id |-> id, data |-> data]
Edge(id, s, t) == [id |-> id, source |-> s, target |-> t]

\* A request body / snapshot content: title, nodes, edges.
Body(title, nodes, edges) == [title |-> title, nodes |-> nodes, edges |-> edges]
EmptyBody == Body(NoTitle, {}, {})
\* The content a client holds after its k-th change: one node whose data is k.
Snap(k) == Body(NoTitle, {Node("n1", k)}, {})

\* The request bodies of SpecStore: one whose edges have an endpoint that
\* is no node of the body, or are self-loops, and one with a sound edge.
Bodies ==
  { Body("A", {Node("n1", 1)}, {Edge("e2", "n1", "n9"), Edge("e3", "n1", "n1")}),
    Body(NoTitle, {Node("n1", 2), Node("n2", 1)}, {Edge("e1", "n1", "n2")}) }

----------------------------------------------------------------------------
\* The store.

\* makeVersion: `${board.updatedAt.toISOString()}:${board.version ?? 0}`
makeVersion(b) == [ts |-> b.updatedAt, n |-> b.version]

\* The first k statements of the PUT handler's prisma.$transaction([...]),
\* applied in order to the row and its nodes and edges.  The update writes no
\* updatedAt itself: the column follows the clock at the update (it stays
\* the same when the clock has not moved since the last write).
TxnSteps(b, body, at, k) ==
  LET s1 == IF k >= 1 THEN [b EXCEPT !.nodes = {}] ELSE b
      s2 == IF k >= 2 THEN [s1 EXCEPT !.edges = {}] ELSE s1
      s3 == IF k >= 3 THEN [s2 EXCEPT !.nodes = body.nodes] ELSE s2
      s4 == IF k >= 4 THEN [s3 EXCEPT !.edges = body.edges] ELSE s3
      s5 == IF k >= 5
            THEN [s4 EXCEPT !.title = IF body.title = NoTitle THEN @ ELSE body.title,
                            !.version = @ + 1,
                            !.updatedAt = at]
            ELSE s4
  IN s5

\* A mutant: a failing statement leaves the statements before it applied.
PutTransaction_NoRollback(b, body, at, failAt) ==
  IF failAt = 0 THEN TxnSteps(b, body, at, 5)
  ELSE TxnSteps(b, body, at, failAt - 1)

\* prisma.$transaction: all five statements, or (statement failAt throws) none.
PutTransaction(b, body, at, failAt) ==
  IF failAt = 0 THEN TxnSteps(b, body, at, 5) ELSE b

\* A mutant: the version check accepts any tag.
VersionConflict_Never(version, currentVersion) == FALSE

\* A mutant: every PUT that carries a tag is a conflict.
VersionConflict_AnyTag(version, currentVersion) == version # NoTag

\* if (version && version !== currentVersion) -> 409
VersionConflict(version, currentVersion) ==
  version # NoTag /\ version # currentVersion

\* prisma.papertrailBoard.create of the POST handler
NewBoard(id, body, at) ==
  [id |-> id, title |-> body.title, nodes |-> body.nodes, edges |-> body.edges,
   version |-> 0, updatedAt |-> at]

\* The JSON of a board row with its nodes and edges (GET, POST, PUT answers).
Snapshot(b) ==
  [nodes |-> b.nodes, edges |-> b.edges, title |-> b.title,
   version |-> makeVersion(b)]

----------------------------------------------------------------------------
\* HTTP requests against the store (SpecStore).

ReqIds == 1..MaxReqs

IdleReq ==
  [pc |-> "idle", method |-> "-", body |-> EmptyBody, version |-> NoTag,
   existing |-> NoTag, bid |-> 0, status |-> 0, tag |-> NoTag, wrote |-> FALSE]

\* Requests are taken in the order of their ids.
CanStart(r) == reqs[r].pc = "idle" /\ \A q \in 1..(r - 1) : reqs[q].pc # "idle"

\* Tags a caller can hold: none, a forged one, or one the store may have had.
KnownTags ==
  {NoTag, ForgedTag} \cup
  (IF board = <<>> THEN {}
   ELSE { [ts |-> t, n |-> k] : t \in 0..board[1].updatedAt, k \in 0..board[1].version })

Tick ==
  /\ now < MaxClock
  /\ now' = now + 1
  /\ UNCHANGED <<board, reqs, putLog>>
  /\ UNCHANGED cvars

\* router.get("/boards/:projectId"): one query, then the answer.
Get(r) ==
  /\ CanStart(r)
  /\ reqs' = [reqs EXCEPT ![r] =
       IF board = <<>>
       THEN [IdleReq EXCEPT !.pc = "done", !.method = "GET", !.status = 404]
       ELSE [IdleReq EXCEPT !.pc = "done", !.method = "GET", !.status = 200,
                            !.tag = makeVersion(board[1])]]
  /\ UNCHANGED <<board, now, putLog>>
  /\ UNCHANGED cvars

\* router.post: findUnique; 409 when the board exists.
PostRead(r) ==
  /\ CanStart(r)
  /\ \E body \in Bodies :
       reqs' = [reqs EXCEPT ![r] =
         IF board # <<>>
         THEN [IdleReq EXCEPT !.pc = "done", !.method = "POST", !.body = body,
                              !.status = 409]
         ELSE [IdleReq EXCEPT !.pc = "create", !.method = "POST", !.body = body]]
  /\ UNCHANGED <<board, now, putLog>>
  /\ UNCHANGED cvars

\* router.post: papertrailBoard.create, then the 201 answer.  projectId is
\* unique: the create throws when another request created the board meanwhile.
PostCreate(r) ==
  /\ reqs[r].pc = "create"
  /\ IF board # <<>>
     THEN /\ reqs' = [reqs EXCEPT ![r].pc = "done", ![r].status = 500]
          /\ UNCHANGED board
     ELSE /\ board' = <<NewBoard(r, reqs[r].body, now)>>
          /\ reqs' = [reqs EXCEPT ![r].pc = "done", ![r].status = 201,
                                  ![r].tag = makeVersion(board'[1]),
                                  ![r].wrote = TRUE]
  /\ UNCHANGED <<now, putLog>>
  /\ UNCHANGED cvars

\* A mutant: a PUT for a board that does not exist creates it (an upsert).
PutRead_Upsert(r) ==
  /\ CanStart(r)
  /\ \E body \in Bodies, version \in KnownTags :
       LET req == [IdleReq EXCEPT !.method = "PUT", !.body = body,
                                  !.version = version]
       IN IF board = <<>>
          THEN /\ board' = <<NewBoard(r, body, now)>>
               /\ reqs' = [reqs EXCEPT ![r] =
                    [req EXCEPT !.pc = "done", !.status = 200, !.wrote = TRUE,
                                !.tag = makeVersion(board'[1])]]
          ELSE /\ board' = board
               /\ reqs' = [reqs EXCEPT ![r] =
                    IF VersionConflict(version, makeVersion(board[1]))
                    THEN [req EXCEPT !.pc = "done", !.status = 409,
                                     !.existing = makeVersion(board[1]),
                                     !.tag = makeVersion(board[1])]
                    ELSE [req EXCEPT !.pc = "txn", !.existing = makeVersion(board[1]),
                                     !.bid = board[1].id]]
  /\ UNCHANGED <<now, putLog>>
  /\ UNCHANGED cvars

\* router.put: findUnique (select version, updatedAt), 404 when absent,
\* makeVersion(existing), and the version check with its 409.
PutRead(r) ==
  /\ CanStart(r)
  /\ \E body \in Bodies, version \in KnownTags :
       LET req == [IdleReq EXCEPT !.method = "PUT", !.body = body,
                                  !.version = version]
       IN reqs' = [reqs EXCEPT ![r] =
            IF board = <<>>
            THEN [req EXCEPT !.pc = "done", !.status = 404]
            ELSE IF VersionConflict(version, makeVersion(board[1]))
            THEN [req EXCEPT !.pc = "done", !.status = 409,
                             !.existing = makeVersion(board[1]),
                             !.tag = makeVersion(board[1])]
            ELSE [req EXCEPT !.pc = "txn", !.existing = makeVersion(board[1]),
                             !.bid = board[1].id]]
  /\ UNCHANGED <<board, now, putLog>>
  /\ UNCHANGED cvars

\* router.put: await prisma.$transaction([...]).  A throwing statement rolls
\* the transaction back and the handler ends with the error (500).  When the
\* row with existing.id is gone, createMany has no board to refer to, or
\* (nothing to create) the update finds no row: the transaction throws.
PutTxn(r) ==
  /\ reqs[r].pc = "txn"
  /\ IF board = <<>> \/ board[1].id # reqs[r].bid
     THEN /\ board' = board
          /\ reqs' = [reqs EXCEPT ![r].pc = "done", ![r].status = 500]
     ELSE \E failAt \in 0..5 :
            /\ board' = <<PutTransaction(board[1], reqs[r].body, now, failAt)>>
            /\ reqs' = [reqs EXCEPT ![r] =
                 IF failAt = 0 THEN [@ EXCEPT !.pc = "reread", !.wrote = TRUE]
                 ELSE [@ EXCEPT !.pc = "done", !.status = 500]]
  /\ UNCHANGED <<now, putLog>>
  /\ UNCHANGED cvars

\* router.put: findUnique again (include nodes, edges) and the 200 answer
\* with makeVersion(updated).
PutReread(r) ==
  /\ reqs[r].pc = "reread"
  /\ IF board = <<>> \/ board[1].id # reqs[r].bid
     THEN \* updated is null: updated.edges throws
          /\ reqs' = [reqs EXCEPT ![r].pc = "done", ![r].status = 500]
          /\ UNCHANGED putLog
     ELSE /\ reqs' = [reqs EXCEPT ![r].pc = "done", ![r].status = 200,
                                  ![r].tag = makeVersion(board[1])]
          /\ putLog' = Append(putLog, [req |-> r, tag |-> makeVersion(board[1]),
                                       nodes |-> board[1].nodes])
  /\ UNCHANGED <<board, now>>
  /\ UNCHANGED cvars

\* the project this client shows, and another one
ProjectId == "b1"
OtherProject == "b2"
Projects == {ProjectId, OtherProject}

\* Connections to the hub: 0 is a client of the hub that is not this view,
\* n >= 1 is the n-th socket this view has created.
Foreign == 0
Conns == 0..(MaxEnv + 1)

\* No call of a function checked on its own has been made.
NoCall == localStorage = <<>> /\ call = <<>>

\* No socket yet, nothing queued, nobody subscribed.
ChannelIdle ==
  /\ NoCall
  /\ ws = [id |-> 0, state |-> "closed"]
  /\ reconnectTimer = [ref |-> FALSE, live |-> 0]
  /\ pendingUpdates = <<>>
  /\ up = [k \in Conns |-> <<>>]
  /\ subs = [p \in Projects |-> {}]
  /\ down = {}

ClientIdle ==
  /\ ChannelIdle
  /\ view = EmptyBody /\ effectDue = FALSE /\ boardVersionRef = NoTag
  /\ cache = <<>> /\ hasOnConflict = TRUE /\ timerLive = 0
  /\ lastVersion = NoTag /\ pending = <<>> /\ busy = FALSE
  /\ retryTimer = FALSE /\ retryLive = <<>> /\ flights = <<>> /\ wire = {}
  /\ loading = TRUE /\ hyd = "mount" /\ hadCachedSnapshot = FALSE
  /\ sent = <<>> /\ prevSid = 0 /\ nPuts = 0
  /\ schedNo = 0 /\ winStart = 0 /\ failed = <<>>
  /\ conflictTag = NoTag /\ forced = 0 /\ nEnv = 0

InitStore ==
  /\ board = <<>>
  /\ now = 0
  /\ reqs = [r \in ReqIds |-> IdleReq]
  /\ putLog = <<>>
  /\ ClientIdle

NextStore ==
  \/ Tick
  \/ \E r \in ReqIds : Get(r)
  \/ \E r \in ReqIds : PostRead(r)
  \/ \E r \in ReqIds : PostCreate(r)
  \/ \E r \in ReqIds : PutRead(r)
  \/ \E r \in ReqIds : PutTxn(r)
  \/ \E r \in ReqIds : PutReread(r)

SpecStore == InitStore /\ [][NextStore]_vars

----------------------------------------------------------------------------
\* The platform's delete hook onDelete({ prisma, projectId }) beside the
\* POST and PUT handlers (SpecDelete).

\* how a call of onDelete ended
Returned == 1
Threw == 2

\* The first k statements of onDelete's prisma.$transaction([...]).
DeleteSteps(b, k) ==
  LET s1 == IF k >= 1 THEN <<[b EXCEPT !.nodes = {}]>> ELSE <<b>>
      s2 == IF k >= 2 THEN <<[s1[1] EXCEPT !.edges = {}]>> ELSE s1
      s3 == IF k >= 3 THEN <<>> ELSE s2
  IN s3

\* A mutant: a failing statement leaves the statements before it applied.
DeleteTransaction_NoRollback(b, failAt) ==
  IF failAt = 0 THEN DeleteSteps(b, 3) ELSE DeleteSteps(b, failAt - 1)

\* prisma.$transaction: all three statements, or (statement failAt throws) none.
DeleteTransaction(b, failAt) ==
  IF failAt = 0 THEN DeleteSteps(b, 3) ELSE <<b>>

\* onDelete: findUnique (select id); return when there is no board.
DeleteRead(r) ==
  /\ CanStart(r)
  /\ reqs' = [reqs EXCEPT ![r] =
       IF board = <<>>
       THEN [IdleReq EXCEPT !.pc = "done", !.method = "onDelete", !.status = Returned]
       ELSE [IdleReq EXCEPT !.pc = "deltxn", !.method = "onDelete",
                            !.bid = board[1].id]]
  /\ UNCHANGED <<board, now, putLog>>
  /\ UNCHANGED cvars

\* onDelete: await prisma.$transaction([...]) and the catch block.  When
\* the row with board.id is gone the two deleteMany delete nothing and the
\* delete throws P2025, which is ignored; any other error is thrown on.
DeleteTxn(r) ==
  /\ reqs[r].pc = "deltxn"
  /\ IF board = <<>> \/ board[1].id # reqs[r].bid
     THEN /\ board' = board
          /\ reqs' = [reqs EXCEPT ![r].pc = "done", ![r].status = Returned]
     ELSE \E failAt \in 0..3 :
            /\ board' = DeleteTransaction(board[1], failAt)
            /\ reqs' = [reqs EXCEPT ![r] =
                 IF failAt = 0
                 THEN [@ EXCEPT !.pc = "done", !.status = Returned, !.wrote = TRUE]
                 ELSE [@ EXCEPT !.pc = "done", !.status = Threw]]
  /\ UNCHANGED <<now, putLog>>
  /\ UNCHANGED cvars

\* There is no board, or one with nodes and an edge.
InitDelete ==
  /\ board \in {<<>>,
                <<NewBoard(0, Body("A", {Node("n1", 0), Node("n2", 0)},
                                   {Edge("e1", "n1", "n2")}), 0)>>}
  /\ now = 0
  /\ reqs = [r \in ReqIds |-> IdleReq]
  /\ putLog = <<>>
  /\ ClientIdle

\* One PUT is handled beside the deletes and the creations.
PutReadOnce(r) ==
  /\ \A q \in ReqIds : reqs[q].method # "PUT"
  /\ PutRead(r)

NextDelete ==
  \/ \E r \in ReqIds : DeleteRead(r)
  \/ \E r \in ReqIds : DeleteTxn(r)
  \/ \E r \in ReqIds : PostRead(r)
  \/ \E r \in ReqIds : PostCreate(r)
  \/ \E r \in ReqIds : PutReadOnce(r)
  \/ \E r \in ReqIds : PutTxn(r)
  \/ \E r \in ReqIds : PutReread(r)

SpecDelete == InitDelete /\ [][NextDelete]_vars

----------------------------------------------------------------------------
\* The sync client: the view (Flow) and createSaver.

\* The characters of a version tag, as JavaScript compares strings: the ISO
\* timestamp is of fixed width, then ':' and the counter in decimal.
RECURSIVE DecChars(_)
DecChars(n) == IF n < 10 THEN <<48 + n>> ELSE DecChars(n \div 10) \o <<48 + (n % 10)>>

TagChars(t) == <<48 + (t.ts \div 10), 48 + (t.ts % 10)>> \o <<58>> \o DecChars(t.n)

\* a < b for strings (sequences of character codes)
StrLess(a, b) ==
  \E i \in 1..(Len(b)) :
    /\ \A j \in 1..(i - 1) : j <= Len(a) /\ a[j] = b[j]
    /\ \/ i = Len(a) + 1
       \/ i <= Len(a) /\ a[i] < b[i]

\* snapshot.version <= boardVersionRef.current
VersionLeq(v, known) == TagChars(v) = TagChars(known) \/ StrLess(TagChars(v), TagChars(known))

\* The part of the client applyRemoteSnapshot and the saver work on.
Client ==
  [view |-> view, effectDue |-> effectDue, boardVersionRef |-> boardVersionRef,
   cache |-> cache, lastVersion |-> lastVersion, pending |-> pending,
   busy |-> busy, retryTimer |-> retryTimer, retryLive |-> retryLive,
   flights |-> flights, sent |-> sent, prevSid |-> prevSid, nPuts |-> nPuts,
   failed |-> failed,
   conflictTag |-> conflictTag, forced |-> forced]

SetClient(c) ==
  /\ view' = c.view /\ effectDue' = c.effectDue
  /\ boardVersionRef' = c.boardVersionRef /\ cache' = c.cache
  /\ lastVersion' = c.lastVersion /\ pending' = c.pending /\ busy' = c.busy
  /\ retryTimer' = c.retryTimer /\ retryLive' = c.retryLive
  /\ flights' = c.flights /\ sent' = c.sent /\ prevSid' = c.prevSid
  /\ nPuts' = c.nPuts /\ failed' = c.failed
  /\ conflictTag' = c.conflictTag /\ forced' = c.forced

\* applyRemoteSnapshot: skip when the incoming version is not newer;
\* else setNodes/setEdges (the save effect becomes due), saver.setVersion,
\* boardVersionRef, saveCache.
applyRemoteSnapshot(c, snapshot) ==
  IF c.boardVersionRef # NoTag /\ VersionLeq(snapshot.version, c.boardVersionRef)
  THEN c
  ELSE [c EXCEPT !.view = Body(NoTitle, snapshot.nodes, snapshot.edges),
                 !.effectDue = TRUE,
                 !.lastVersion = snapshot.version,
                 !.boardVersionRef = snapshot.version,
                 !.cache = <<[body |-> Body(NoTitle, snapshot.nodes, snapshot.edges),
                              version |-> snapshot.version]>>]

\* A mutant: the PUT carries the tag the snapshot got when it was scheduled.
StartPut_CapturedTag(c) ==
  LET payload == c.pending[1]
  IN [c EXCEPT !.busy = TRUE,
               !.pending = <<>>,
               !.flights = Append(@, [payload |-> payload, phase |-> "sent",
                                      status |-> 0, res |-> NoTag]),
               !.sent = <<[sid |-> payload.sid, body |-> payload.body,
                           version |-> payload.version,
                           src |-> payload.src, newest |-> schedNo,
                           afterConflict |-> c.conflictTag]>>,
               !.prevSid = IF c.sent = <<>> THEN 0 ELSE c.sent[1].sid,
               !.nPuts = @ + 1,
               !.failed = <<>>,
               !.conflictTag = NoTag,
               !.forced = IF @ = payload.sid THEN 0 ELSE @]

\* flush, past its guard: take the pending snapshot, stamp it with
\* lastVersion || snapshot.version and call saveBoard.
StartPut(c) ==
  LET snapshot == c.pending[1]
      payload == [snapshot EXCEPT
                    !.version = IF c.lastVersion # NoTag THEN c.lastVersion ELSE @]
  IN [c EXCEPT !.busy = TRUE,
               !.pending = <<>>,
               !.flights = Append(@, [payload |-> payload, phase |-> "sent",
                                      status |-> 0, res |-> NoTag]),
               !.sent = <<[sid |-> payload.sid, body |-> payload.body,
                           version |-> payload.version,
                           src |-> payload.src, newest |-> schedNo,
                           afterConflict |-> c.conflictTag]>>,
               !.prevSid = IF c.sent = <<>> THEN 0 ELSE c.sent[1].sid,
               !.nPuts = @ + 1,
               !.failed = <<>>,
               !.conflictTag = NoTag,
               !.forced = IF @ = payload.sid THEN 0 ELSE @]

\* A mutant: flush does not look at busy.
flush_NoBusyGuard(c) == IF c.pending = <<>> THEN c ELSE StartPut(c)

\* flush: if (!pending || busy) return;
flush(c) == IF c.pending = <<>> \/ c.busy THEN c ELSE StartPut(c)

\* A mutant: the retry timer is armed whether or not one is armed already.
ArmRetry_NoGuard(c) ==
  [c EXCEPT !.retryTimer = TRUE, !.retryLive = Append(@, RETRY_MS)]

\* A mutant: the catch branch arms no retry timer.
ArmRetry_Never(c) == c

\* if (!retryTimer) retryTimer = setTimeout(..., 5000)
ArmRetry(c) ==
  IF c.retryTimer THEN c
  ELSE [c EXCEPT !.retryTimer = TRUE, !.retryLive = Append(@, RETRY_MS)]

\* A mutant: the catch branch does not put the payload back.
Rebuffer_Drop(c, payload, src) == c

\* pending = payload (the catch branch of flush)
Rebuffer(c, payload, src) ==
  [c EXCEPT !.pending = <<[payload EXCEPT !.src = src]>>]

Remove(seq, i) == SubSeq(seq, 1, i - 1) \o SubSeq(seq, i + 1, Len(seq))

\* The end of flush's catch branch: pending = payload, arm the retry timer
\* unless armed, busy = false.
CatchTail(c, i, src) ==
  LET payload == c.flights[i].payload
      c1 == Rebuffer(c, payload, src)
      c2 == ArmRetry(c1)
  IN [c2 EXCEPT !.busy = FALSE, !.flights = Remove(@, i)]

\* saveBoard calls in one run of SpecSaver
MaxPuts == 2

\* The step may call saveBoard only while the run's PUT budget lasts.
WithinBudget(c) == c.nPuts <= MaxPuts

chan == <<ws, reconnectTimer, pendingUpdates, up, subs, down>>
aux == <<localStorage, call>>
henv == <<hasOnConflict, now, reqs, putLog, chan, aux>>
cenv == <<hasOnConflict, now, reqs, putLog, loading, hyd, hadCachedSnapshot, chan, aux>>

\* The user changes the board: setNodes / setEdges.
UserEdit ==
  /\ nEnv < MaxEnv
  /\ nEnv' = nEnv + 1
  /\ view' = Snap(nEnv + 1)
  /\ effectDue' = TRUE
  /\ UNCHANGED <<board, boardVersionRef, cache, timerLive, lastVersion, pending,
                 busy, retryTimer, retryLive, flights, wire, sent, prevSid, nPuts, schedNo,
                 winStart, failed, conflictTag, forced>>
  /\ UNCHANGED cenv

\* The save effect (if (loading) return): saveCache(version: null) and
\* saver.schedule(snapshot):
\* pending = {...snapshot, version: lastVersion || snapshot.version},
\* clearTimeout(timer), timer = setTimeout(flush, debounceMs).
ScheduleEffect ==
  /\ effectDue
  /\ ~loading
  /\ effectDue' = FALSE
  /\ cache' = <<[body |-> view, version |-> NoTag]>>
  /\ pending' = <<[body |-> view, version |-> lastVersion,
                   sid |-> schedNo + 1, src |-> "sched"]>>
  /\ timerLive' = 1
  /\ schedNo' = schedNo + 1
  /\ winStart' = IF timerLive > 0 THEN winStart ELSE schedNo + 1
  /\ failed' = <<>>
  /\ forced' = 0
  /\ UNCHANGED <<board, view, boardVersionRef, lastVersion, busy, retryTimer,
                 retryLive, flights, wire, sent, prevSid, nPuts, conflictTag, nEnv>>
  /\ UNCHANGED cenv

\* The debounce timer fires: flush().
TimerFire ==
  /\ timerLive > 0
  /\ timerLive' = timerLive - 1
  /\ LET c == flush(Client) IN WithinBudget(c) /\ SetClient(c)
  /\ UNCHANGED <<board, wire, schedNo, winStart, nEnv>>
  /\ UNCHANGED cenv

\* The retry timer fires: retryTimer = null; flush().
RetryFire ==
  /\ retryLive # <<>>
  /\ LET c == flush([Client EXCEPT !.retryTimer = FALSE, !.retryLive = Tail(@)])
     IN WithinBudget(c) /\ SetClient(c)
  /\ UNCHANGED <<board, timerLive, wire, schedNo, winStart, nEnv>>
  /\ UNCHANGED cenv

\* The browser's "online" event: saver.forceFlush(): clearTimeout(timer); flush().
ForceFlush ==
  /\ timerLive' = 0
  /\ LET c == flush([Client EXCEPT
                       !.forced = IF busy /\ pending # <<>> THEN pending[1].sid ELSE @])
     IN WithinBudget(c) /\ SetClient(c)
  /\ UNCHANGED <<board, wire, schedNo, winStart, nEnv>>
  /\ UNCHANGED cenv

\* The store handles the saver's PUT (router.put, here in one step).
ServePut(i) ==
  /\ flights[i].phase = "sent"
  /\ LET payload == flights[i].payload
     IN IF board = <<>>
        THEN /\ flights' = [flights EXCEPT ![i].phase = "replied", ![i].status = 404]
             /\ UNCHANGED board
        ELSE IF VersionConflict(payload.version, makeVersion(board[1]))
        THEN /\ flights' = [flights EXCEPT ![i].phase = "replied", ![i].status = 409,
                                           ![i].res = makeVersion(board[1])]
             /\ UNCHANGED board
        ELSE /\ board' = <<PutTransaction(board[1], payload.body, now, 0)>>
             /\ flights' = [flights EXCEPT ![i].phase = "replied", ![i].status = 200,
                                           ![i].res = makeVersion(board'[1])]
  /\ UNCHANGED <<view, effectDue, boardVersionRef, cache, timerLive, lastVersion,
                 pending, busy, retryTimer, retryLive, wire, sent, prevSid, nPuts, schedNo,
                 winStart, failed, conflictTag, forced, nEnv>>
  /\ UNCHANGED cenv

\* saveBoard resolves: lastVersion = res.version; saveCache(res);
\* busy = false; if (pending) flush().
FlushOk(i) ==
  /\ flights[i].phase = "replied" /\ flights[i].status = 200
  /\ LET f == flights[i]
         c1 == [Client EXCEPT !.lastVersion = f.res,
                              !.cache = <<[body |-> f.payload.body, version |-> f.res]>>,
                              !.busy = FALSE,
                              !.flights = Remove(@, i)]
         c == flush(c1)
     IN WithinBudget(c) /\ SetClient(c)
  /\ UNCHANGED <<board, timerLive, wire, schedNo, winStart, nEnv>>
  /\ UNCHANGED cenv

\* saveBoard rejects with anything but a handled 409 (connection lost before
\* or after the store handled the request, 5xx): the catch branch.
FlushFail(i) ==
  /\ flights[i].phase \in {"sent", "replied"}
  /\ nEnv < MaxEnv
  /\ nEnv' = nEnv + 1
  /\ LET c == CatchTail(Client, i, "netfail")
     IN SetClient([c EXCEPT !.failed = <<flights[i].payload>>])
  /\ UNCHANGED <<board, timerLive, wire, schedNo, winStart>>
  /\ UNCHANGED cenv

\* saveBoard rejects with 409: onConflict is called when it is a function
\* (it starts fetchBoard); without it the catch branch goes on at once.
FlushConflict(i) ==
  /\ flights[i].phase = "replied" /\ flights[i].status = 409
  /\ LET c1 == [Client EXCEPT !.conflictTag = flights[i].payload.version]
     IN IF hasOnConflict
        THEN SetClient([c1 EXCEPT !.flights[i].phase = "reconcile"])
        ELSE SetClient(CatchTail(c1, i, "conflict"))
  /\ UNCHANGED <<board, timerLive, wire, schedNo, winStart, nEnv>>
  /\ UNCHANGED cenv

\* onConflict: fetchBoard resolves, applyRemoteSnapshot(remote); then the
\* rest of the catch branch.
ReconcileOk(i) ==
  /\ flights[i].phase = "reconcile"
  /\ LET c1 == applyRemoteSnapshot(Client, Snapshot(board[1]))
     IN SetClient(CatchTail(c1, i, "conflict"))
  /\ UNCHANGED <<board, timerLive, wire, schedNo, winStart, nEnv>>
  /\ UNCHANGED cenv

\* onConflict: fetchBoard rejects (caught inside onConflict); then the rest
\* of the catch branch.
ReconcileFail(i) ==
  /\ flights[i].phase = "reconcile"
  /\ nEnv < MaxEnv
  /\ nEnv' = nEnv + 1
  /\ SetClient(CatchTail(Client, i, "conflict"))
  /\ UNCHANGED <<board, timerLive, wire, schedNo, winStart>>
  /\ UNCHANGED cenv

\* Another client replaces the board; its update notification is on the way.
OtherWrite ==
  /\ nEnv < MaxEnv
  /\ board # <<>>
  /\ nEnv' = nEnv + 1
  /\ board' = <<PutTransaction(board[1], Snap(10 + nEnv + 1), now, 0)>>
  /\ wire' = wire \cup {[version |-> makeVersion(board'[1]),
                         snapshot |-> Snapshot(board'[1]),
                         sourceId |-> "other"]}
  /\ UNCHANGED <<view, effectDue, boardVersionRef, cache, timerLive, lastVersion,
                 pending, busy, retryTimer, retryLive, flights, sent, prevSid, nPuts, schedNo,
                 winStart, failed, conflictTag, forced>>
  /\ UNCHANGED cenv

\* handleWsPacket for a pt:update packet that carries a snapshot.
Deliver ==
  /\ \E packet \in wire :
       /\ wire' = wire \ {packet}
       /\ IF \/ packet.version = NoTag
             \/ packet.sourceId = "self"
             \/ boardVersionRef # NoTag /\ boardVersionRef = packet.version
          THEN SetClient(Client)
          ELSE SetClient(applyRemoteSnapshot(Client, packet.snapshot))
  /\ UNCHANGED <<board, timerLive, schedNo, winStart, nEnv>>
  /\ UNCHANGED cenv

\* The board exists and the view has just been hydrated from it: the cache
\* and both version copies hold the store's tag, and the save effect is due
\* because loading turned false.
InitSaver ==
  /\ board = <<NewBoard(1, Snap(0), 0)>>
  /\ now = 0
  /\ reqs = [r \in ReqIds |-> IdleReq]
  /\ putLog = <<>>
  /\ view = Snap(0)
  /\ effectDue = TRUE
  /\ boardVersionRef = makeVersion(board[1])
  /\ cache = <<[body |-> Snap(0), version |-> makeVersion(board[1])]>>
  /\ hasOnConflict \in BOOLEAN
  /\ ChannelIdle
  /\ timerLive = 0
  /\ lastVersion = makeVersion(board[1])
  /\ pending = <<>> /\ busy = FALSE
  /\ retryTimer = FALSE /\ retryLive = <<>> /\ flights = <<>> /\ wire = {}
  /\ loading = FALSE /\ hyd = "ok" /\ hadCachedSnapshot = FALSE
  /\ sent = <<>> /\ prevSid = 0 /\ nPuts = 0
  /\ schedNo = 0 /\ winStart = 0 /\ failed = <<>>
  /\ conflictTag = NoTag /\ forced = 0 /\ nEnv = 0

NextSaver ==
  \/ UserEdit
  \/ ScheduleEffect
  \/ TimerFire
  \/ RetryFire
  \/ ForceFlush
  \/ \E i \in 1..Len(flights) : ServePut(i)
  \/ \E i \in 1..Len(flights) : FlushOk(i)
  \/ \E i \in 1..Len(flights) : FlushFail(i)
  \/ \E i \in 1..Len(flights) : FlushConflict(i)
  \/ \E i \in 1..Len(flights) : ReconcileOk(i)
  \/ \E i \in 1..Len(flights) : ReconcileFail(i)
  \/ OtherWrite
  \/ Deliver

SpecSaver == InitSaver /\ [][NextSaver]_vars

----------------------------------------------------------------------------
\* One client alone on the board: no other writer, no request lost, every
\* PUT answered (SpecSolo).

InitSolo == InitSaver /\ hasOnConflict

NextSolo ==
  \/ UserEdit
  \/ ScheduleEffect
  \/ TimerFire
  \/ ForceFlush
  \/ \E i \in 1..Len(flights) : ServePut(i)
  \/ \E i \in 1..Len(flights) : FlushOk(i)

SpecSolo == InitSolo /\ [][NextSolo]_vars

----------------------------------------------------------------------------
\* Hydration at mount, then the saver (SpecHydrate).

\* write counters the board may have reached before the run
StartCounters == {0, 8, 9, 98}

\* the nodes and edges a user left unsaved in an earlier session
UnsavedEdit == Snap(30)

\* hydrate: loadCache resolves; a cached snapshot is shown and its version
\* becomes the expected one; then fetchBoard is called.
HydrateLoadCache ==
  /\ hyd = "mount"
  /\ hyd' = "fetch"
  /\ IF cache # <<>>
     THEN /\ hadCachedSnapshot' = TRUE
          /\ SetClient([Client EXCEPT !.view = cache[1].body,
                                      !.effectDue = TRUE,
                                      !.lastVersion = cache[1].version,
                                      !.boardVersionRef = cache[1].version])
     ELSE /\ UNCHANGED hadCachedSnapshot
          /\ SetClient(Client)
  /\ UNCHANGED <<board, timerLive, wire, schedNo, winStart, nEnv, loading>>
  /\ UNCHANGED henv

\* hydrate: fetchBoard resolves, applyRemoteSnapshot(remote), and the
\* finally block: setLoading(false).
HydrateFetchOk ==
  /\ hyd = "fetch"
  /\ board # <<>>
  /\ hyd' = "ok"
  /\ loading' = FALSE
  /\ SetClient([applyRemoteSnapshot(Client, Snapshot(board[1])) EXCEPT
                  !.effectDue = TRUE])
  /\ UNCHANGED <<board, timerLive, wire, schedNo, winStart, nEnv, hadCachedSnapshot>>
  /\ UNCHANGED henv

\* hydrate: fetchBoard rejects with 404: with a cached snapshot the cached
\* version is shown; without one createBoard is called.
HydrateFetch404 ==
  /\ hyd = "fetch"
  /\ board = <<>>
  /\ IF hadCachedSnapshot
     THEN /\ hyd' = "missing"
          /\ loading' = FALSE
          /\ SetClient([Client EXCEPT !.effectDue = TRUE])
     ELSE /\ hyd' = "create"
          /\ UNCHANGED loading
          /\ SetClient(Client)
  /\ UNCHANGED <<board, timerLive, wire, schedNo, winStart, nEnv, hadCachedSnapshot>>
  /\ UNCHANGED henv

\* hydrate: fetchBoard rejects with anything else (no connection, 5xx).
HydrateFetchFail ==
  /\ hyd = "fetch"
  /\ nEnv < MaxEnv
  /\ nEnv' = nEnv + 1
  /\ hyd' = "failed"
  /\ loading' = FALSE
  /\ SetClient([Client EXCEPT !.effectDue = TRUE])
  /\ UNCHANGED <<board, timerLive, wire, schedNo, winStart, hadCachedSnapshot>>
  /\ UNCHANGED henv

\* hydrate: createBoard({nodes: initialNodes, edges: initialEdges}) is
\* answered 201 (router.post, here in one step), applyRemoteSnapshot(created).
HydrateCreateOk ==
  /\ hyd = "create"
  /\ board = <<>>
  /\ board' = <<NewBoard(1, EmptyBody, now)>>
  /\ hyd' = "created"
  /\ loading' = FALSE
  /\ SetClient([applyRemoteSnapshot(Client, Snapshot(board'[1])) EXCEPT
                  !.effectDue = TRUE])
  /\ UNCHANGED <<timerLive, wire, schedNo, winStart, nEnv, hadCachedSnapshot>>
  /\ UNCHANGED henv

\* hydrate: createBoard rejects (no connection, or 409 because the board
\* was created meanwhile): logged.
HydrateCreateFail ==
  /\ hyd = "create"
  /\ nEnv < MaxEnv
  /\ nEnv' = nEnv + 1
  /\ hyd' = "failed"
  /\ loading' = FALSE
  /\ SetClient([Client EXCEPT !.effectDue = TRUE])
  /\ UNCHANGED <<board, timerLive, wire, schedNo, winStart, hadCachedSnapshot>>
  /\ UNCHANGED henv

\* The view is mounted.  The board is absent or has been written some
\* number of times; the cache is empty, or holds what an earlier session
\* left: the snapshot of a fetch or save with its tag, or unsaved edits
\* (the save effect caches them with version null).
InitHydrate ==
  /\ board \in {<<>>} \cup
       { <<[NewBoard(1, Snap(0), 0) EXCEPT !.version = k]>> : k \in StartCounters }
  /\ now = 0
  /\ reqs = [r \in ReqIds |-> IdleReq]
  /\ putLog = <<>>
  /\ view = EmptyBody /\ effectDue = TRUE /\ boardVersionRef = NoTag
  /\ cache \in {<<>>, <<[body |-> UnsavedEdit, version |-> NoTag]>>} \cup
       (IF board = <<>> THEN {}
        ELSE {<<[body |-> Snap(0), version |-> makeVersion(board[1])]>>})
  /\ hasOnConflict = TRUE /\ timerLive = 0
  /\ ChannelIdle
  /\ lastVersion = NoTag /\ pending = <<>> /\ busy = FALSE
  /\ retryTimer = FALSE /\ retryLive = <<>> /\ flights = <<>> /\ wire = {}
  /\ loading = TRUE /\ hyd = "mount" /\ hadCachedSnapshot = FALSE
  /\ sent = <<>> /\ prevSid = 0 /\ nPuts = 0
  /\ schedNo = 0 /\ winStart = 0 /\ failed = <<>>
  /\ conflictTag = NoTag /\ forced = 0 /\ nEnv = 0

NextHydrate ==
  \/ HydrateLoadCache
  \/ HydrateFetchOk
  \/ HydrateFetch404
  \/ HydrateFetchFail
  \/ HydrateCreateOk
  \/ HydrateCreateFail
  \/ Tick
  \/ OtherWrite
  \/ UserEdit
  \/ ScheduleEffect
  \/ TimerFire
  \/ RetryFire
  \/ \E i \in 1..Len(flights) : ServePut(i)
  \/ \E i \in 1..Len(flights) : FlushOk(i)
  \/ \E i \in 1..Len(flights) : FlushFail(i)
  \/ \E i \in 1..Len(flights) : FlushConflict(i)
  \/ \E i \in 1..Len(flights) : ReconcileOk(i)

SpecHydrate == InitHydrate /\ [][NextHydrate]_vars

----------------------------------------------------------------------------
\* The realtime channel (SpecChannel): the view's socket with its reconnects,
\* the hub's pt:join and pt:update handlers, another client of the hub, and
\* the view's handleWsPacket; with it the saver's path of a successful save.
\* sendRealtimeUpdate is handed to createSaver as onSuccess, and createSaver
\* takes projectId, endpoint, debounceMs and onConflict only: no step calls
\* it, and pendingUpdates is written by nothing else.

ClientId == "self"
ForeignId == "x"

JoinFrame(projectId) == [type |-> "pt:join", payload |-> [projectId |-> projectId]]
UpdateFrame(payload) == [type |-> "pt:update", payload |-> payload]

\* The payloads of the pt:update frames the other client sends: for this
\* project or another one, with its own id or a copy of this view's id as
\* sourceId, with the store's snapshot and tag, the tag alone, or no tag.
ForeignPayloads ==
  { [projectId |-> p, version |-> v, sourceId |-> src, snapshot |-> sn] :
      p \in Projects, src \in {ClientId, ForeignId},
      v \in {NoTag} \cup (IF board = <<>> THEN {} ELSE {makeVersion(board[1])}),
      sn \in {<<>>} \cup (IF board = <<>> THEN {} ELSE {<<Snapshot(board[1])>>}) }

\* A mutant: the packet's project id is not looked at.
handleWsPacket_AnyProject(c, payload) ==
  IF payload.version = NoTag THEN c
  ELSE IF payload.sourceId = ClientId THEN c
  ELSE IF c.boardVersionRef # NoTag /\ c.boardVersionRef = payload.version THEN c
  ELSE IF payload.snapshot = <<>>
       THEN (IF board = <<>> THEN c ELSE applyRemoteSnapshot(c, Snapshot(board[1])))
       ELSE applyRemoteSnapshot(c, payload.snapshot[1])

\* handleWsPacket, for a frame that parses as a pt:update packet; the fetch
\* of a packet without snapshot is answered by the store at once.
handleWsPacket(c, payload) ==
  IF payload.projectId # ProjectId THEN c
  ELSE IF payload.version = NoTag THEN c
  ELSE IF payload.sourceId = ClientId THEN c
  ELSE IF c.boardVersionRef # NoTag /\ c.boardVersionRef = payload.version THEN c
  ELSE IF payload.snapshot = <<>>
       THEN (IF board = <<>> THEN c ELSE applyRemoteSnapshot(c, Snapshot(board[1])))
       ELSE applyRemoteSnapshot(c, payload.snapshot[1])

\* A mutant: the hub broadcasts to the whole channel, the sender included.
registerUpdate_NoExclude(client, payload) ==
  { [to |-> k, from |-> client, payload |-> payload] : k \in subs[payload.projectId] }

\* registerUpdate: hub.broadcastChannel(channel, message, { exclude: client })
registerUpdate(client, payload) ==
  { [to |-> k, from |-> client, payload |-> payload] :
      k \in subs[payload.projectId] \ {client} }

sync == <<view, effectDue, boardVersionRef, cache, timerLive, lastVersion, pending,
          busy, retryTimer, retryLive, flights, wire, sent, prevSid, nPuts,
          schedNo, winStart, failed, conflictTag, forced>>
store == <<board, now, reqs, putLog, hasOnConflict, loading, hyd, hadCachedSnapshot,
           localStorage, call>>

\* A mutant: a closed socket arms no reconnect timer.
scheduleReconnect_Never(t) == t

\* scheduleReconnect: if (reconnectTimerRef.current) return; else arm the
\* timer (3000 ms) and keep it in the ref.
scheduleReconnect(t) ==
  IF t.ref THEN t ELSE [ref |-> TRUE, live |-> t.live + 1]

\* The socket effect: new WebSocket(wsUrl); wsRef.current = socket.
WsConnect ==
  /\ ws.state = "closed" /\ ~reconnectTimer.ref
  /\ ws.id < MaxEnv + 1
  /\ ws' = [id |-> ws.id + 1, state |-> "connecting"]
  /\ UNCHANGED <<reconnectTimer, pendingUpdates, up, subs, down, nEnv>>
  /\ UNCHANGED sync /\ UNCHANGED store

\* handleOpen: send pt:join, then the queued packets; the queue is emptied.
WsOpen ==
  /\ ws.state = "connecting"
  /\ ws' = [ws EXCEPT !.state = "open"]
  /\ up' = [up EXCEPT ![ws.id] = <<JoinFrame(ProjectId)>> \o pendingUpdates]
  /\ pendingUpdates' = <<>>
  /\ UNCHANGED <<reconnectTimer, subs, down, nEnv>>
  /\ UNCHANGED sync /\ UNCHANGED store

\* The connection is lost.  handleClose: wsRef.current = null;
\* scheduleReconnect() arms the reconnect timer unless it is armed.  The
\* hub forgets the connection; frames still on the way are lost.
WsClose ==
  /\ ws.state \in {"connecting", "open"}
  /\ nEnv < MaxEnv
  /\ nEnv' = nEnv + 1
  /\ ws' = [ws EXCEPT !.state = "closed"]
  /\ reconnectTimer' = scheduleReconnect(reconnectTimer)
  /\ up' = [up EXCEPT ![ws.id] = <<>>]
  /\ subs' = [p \in Projects |-> subs[p] \ {ws.id}]
  /\ down' = {f \in down : f.to # ws.id}
  /\ UNCHANGED pendingUpdates
  /\ UNCHANGED sync /\ UNCHANGED store

\* The reconnect timer fires: reconnectTimerRef.current = null and the
\* retry token changes, which makes the socket effect run again.
ReconnectFire ==
  /\ reconnectTimer.live > 0
  /\ reconnectTimer' = [ref |-> FALSE, live |-> reconnectTimer.live - 1]
  /\ UNCHANGED <<ws, pendingUpdates, up, subs, down, nEnv>>
  /\ UNCHANGED sync /\ UNCHANGED store

\* The hub handles a pt:join frame: subscribe(client, projectId).
HubJoin(k) ==
  /\ up[k] # <<>> /\ Head(up[k]).type = "pt:join"
  /\ up' = [up EXCEPT ![k] = Tail(@)]
  /\ subs' = [subs EXCEPT ![Head(up[k]).payload.projectId] = @ \cup {k}]
  /\ UNCHANGED <<ws, reconnectTimer, pendingUpdates, down, nEnv>>
  /\ UNCHANGED sync /\ UNCHANGED store

\* The hub handles a pt:update frame: registerUpdate(client, payload).
HubUpdate(k) ==
  /\ up[k] # <<>> /\ Head(up[k]).type = "pt:update"
  /\ up' = [up EXCEPT ![k] = Tail(@)]
  /\ down' = down \cup registerUpdate(k, Head(up[k]).payload)
  /\ UNCHANGED <<ws, reconnectTimer, pendingUpdates, subs, nEnv>>
  /\ UNCHANGED sync /\ UNCHANGED store

\* The socket's message event: handleWsPacket(event).
WsMessage ==
  /\ ws.state = "open"
  /\ \E f \in down :
       /\ f.to = ws.id
       /\ down' = down \ {f}
       /\ SetClient(handleWsPacket(Client, f.payload))
  /\ UNCHANGED <<ws, reconnectTimer, pendingUpdates, up, subs>>
  /\ UNCHANGED <<timerLive, wire, schedNo, winStart, nEnv>>
  /\ UNCHANGED store

\* The other client saves the board (a PUT the store accepts).
ForeignWrite ==
  /\ nEnv < MaxEnv
  /\ nEnv' = nEnv + 1
  /\ board # <<>>
  /\ board' = <<PutTransaction(board[1], Snap(10 + nEnv + 1), now, 0)>>
  /\ UNCHANGED chan
  /\ UNCHANGED sync
  /\ UNCHANGED <<now, reqs, putLog, hasOnConflict, loading, hyd, hadCachedSnapshot>>
  /\ UNCHANGED <<localStorage, call>>

\* The other client sends a pt:update frame.
ForeignUpdate ==
  /\ nEnv < MaxEnv
  /\ nEnv' = nEnv + 1
  /\ \E payload \in ForeignPayloads :
       up' = [up EXCEPT ![Foreign] = Append(@, UpdateFrame(payload))]
  /\ UNCHANGED <<ws, reconnectTimer, pendingUpdates, subs, down>>
  /\ UNCHANGED sync /\ UNCHANGED store

\* The view is hydrated and has not created its socket yet; the other
\* client is connected and has joined this project's channel.
InitChannel ==
  /\ \E k \in {0, 9} :
       board = <<[NewBoard(1, Snap(0), 0) EXCEPT !.version = k]>>
  /\ now = 0
  /\ reqs = [r \in ReqIds |-> IdleReq]
  /\ putLog = <<>>
  /\ view = Snap(0)
  /\ effectDue = TRUE
  /\ boardVersionRef = makeVersion(board[1])
  /\ cache = <<[body |-> Snap(0), version |-> makeVersion(board[1])]>>
  /\ hasOnConflict = TRUE
  /\ NoCall
  /\ ws = [id |-> 0, state |-> "closed"]
  /\ reconnectTimer = [ref |-> FALSE, live |-> 0]
  /\ pendingUpdates = <<>>
  /\ up = [k \in Conns |-> <<>>]
  /\ subs = [p \in Projects |-> IF p = ProjectId THEN {Foreign} ELSE {}]
  /\ down = {}
  /\ timerLive = 0
  /\ lastVersion = makeVersion(board[1])
  /\ pending = <<>> /\ busy = FALSE
  /\ retryTimer = FALSE /\ retryLive = <<>> /\ flights = <<>> /\ wire = {}
  /\ loading = FALSE /\ hyd = "ok" /\ hadCachedSnapshot = FALSE
  /\ sent = <<>> /\ prevSid = 0 /\ nPuts = 0
  /\ schedNo = 0 /\ winStart = 0 /\ failed = <<>>
  /\ conflictTag = NoTag /\ forced = 0 /\ nEnv = 0

NextChannel ==
  \/ WsConnect
  \/ WsOpen
  \/ WsClose
  \/ ReconnectFire
  \/ \E k \in Conns : HubJoin(k)
  \/ \E k \in Conns : HubUpdate(k)
  \/ WsMessage
  \/ ForeignWrite
  \/ ForeignUpdate
  \/ ScheduleEffect
  \/ TimerFire
  \/ \E i \in 1..Len(flights) : ServePut(i)
  \/ \E i \in 1..Len(flights) : FlushOk(i)

SpecChannel == InitChannel /\ [][NextChannel]_vars

\* The channel with a socket that hands any pt:update packet to the view's
\* message listener, whatever the hub addressed to it (SpecFanout).

\* A pt:update packet arrives on the open socket that no registerUpdate of
\* the hub put there.
StrayFrame ==
  /\ ws.state = "open"
  /\ nEnv < MaxEnv
  /\ nEnv' = nEnv + 1
  /\ \E payload \in ForeignPayloads :
       down' = down \cup {[to |-> ws.id, from |-> Foreign, payload |-> payload]}
  /\ UNCHANGED <<ws, reconnectTimer, pendingUpdates, up, subs>>
  /\ UNCHANGED sync /\ UNCHANGED store

NextFanout ==
  \/ NextChannel
  \/ StrayFrame

SpecFanout == InitChannel /\ [][NextFanout]_vars

\* The channel with sendRealtimeUpdate called (SpecOutbox).  Flow hands the
\* function to createSaver as onSuccess; here it is called with the answer
\* of a save at any time.

\* A mutant: the packet is sent on the socket whatever its state.
sendRealtimeUpdate_NoQueue(snapshot) ==
  [boardVersionRef |-> snapshot.version,
   up |-> [up EXCEPT ![ws.id] = Append(@, UpdateFrame(
             [projectId |-> ProjectId, version |-> snapshot.version,
              sourceId |-> ClientId, snapshot |-> <<snapshot>>]))],
   pendingUpdates |-> pendingUpdates]

\* sendRealtimeUpdate(snapshot): nothing without a version; else the
\* known version is set, and the packet is sent when wsRef.current is an
\* open socket and pushed on pendingUpdatesRef.current otherwise.
sendRealtimeUpdate(snapshot) ==
  LET packet == UpdateFrame([projectId |-> ProjectId, version |-> snapshot.version,
                             sourceId |-> ClientId, snapshot |-> <<snapshot>>])
  IN IF snapshot.version = NoTag
     THEN [boardVersionRef |-> boardVersionRef, up |-> up,
           pendingUpdates |-> pendingUpdates]
     ELSE IF ws.state = "open"
     THEN [boardVersionRef |-> snapshot.version,
           up |-> [up EXCEPT ![ws.id] = Append(@, packet)],
           pendingUpdates |-> pendingUpdates]
     ELSE [boardVersionRef |-> snapshot.version, up |-> up,
           pendingUpdates |-> Append(pendingUpdates, packet)]

\* A call of sendRealtimeUpdate with the store's snapshot, or with one that
\* has no version; call records the argument and the socket's state.
SendRealtimeUpdate ==
  /\ nEnv < MaxEnv
  /\ nEnv' = nEnv + 1
  /\ board # <<>>
  /\ \E snapshot \in {Snapshot(board[1]), [Snapshot(board[1]) EXCEPT !.version = NoTag]} :
       /\ boardVersionRef' = sendRealtimeUpdate(snapshot).boardVersionRef
       /\ up' = sendRealtimeUpdate(snapshot).up
       /\ pendingUpdates' = sendRealtimeUpdate(snapshot).pendingUpdates
       /\ call' = <<[fn |-> "sendRealtimeUpdate", snapshot |-> snapshot,
                     open |-> ws.state = "open", at |-> nEnv']>>
  /\ UNCHANGED <<ws, reconnectTimer, subs, down>>
  /\ UNCHANGED <<view, effectDue, cache, timerLive, lastVersion, pending,
                 busy, retryTimer, retryLive, flights, wire, sent, prevSid, nPuts,
                 schedNo, winStart, failed, conflictTag, forced>>
  /\ UNCHANGED <<board, now, reqs, putLog, hasOnConflict, loading, hyd,
                 hadCachedSnapshot, localStorage>>

NextOutbox ==
  \/ NextChannel
  \/ SendRealtimeUpdate

SpecOutbox == InitChannel /\ [][NextOutbox]_vars

----------------------------------------------------------------------------
\* The view and its saver with other writers, every request answered, run
\* without a bound on the number of PUTs, and with the fairness of timers
\* and of answers (SpecLive).  The number of PUTs is not counted here.

\* The debounce timer fires: flush().
TimerFireL ==
  /\ timerLive > 0
  /\ timerLive' = timerLive - 1
  /\ SetClient([flush(Client) EXCEPT !.nPuts = 0])
  /\ UNCHANGED <<board, wire, schedNo, winStart, nEnv>>
  /\ UNCHANGED cenv

\* The retry timer fires: retryTimer = null; flush().
RetryFireL ==
  /\ retryLive # <<>>
  /\ SetClient([flush([Client EXCEPT !.retryTimer = FALSE, !.retryLive = Tail(@)])
                  EXCEPT !.nPuts = 0])
  /\ UNCHANGED <<board, timerLive, wire, schedNo, winStart, nEnv>>
  /\ UNCHANGED cenv

\* saveBoard resolves: lastVersion = res.version; saveCache(res);
\* busy = false; if (pending) flush().
FlushOkL(i) ==
  /\ flights[i].phase = "replied" /\ flights[i].status = 200
  /\ LET f == flights[i]
         c1 == [Client EXCEPT !.lastVersion = f.res,
                              !.cache = <<[body |-> f.payload.body, version |-> f.res]>>,
                              !.busy = FALSE,
                              !.flights = Remove(@, i)]
     IN SetClient([flush(c1) EXCEPT !.nPuts = 0])
  /\ UNCHANGED <<board, timerLive, wire, schedNo, winStart, nEnv>>
  /\ UNCHANGED cenv

\* The board exists and the view has just been hydrated from it.
InitLive ==
  /\ \E k \in {0, 9} :
       board = <<[NewBoard(1, Snap(0), 0) EXCEPT !.version = k]>>
  /\ now = 0
  /\ reqs = [r \in ReqIds |-> IdleReq]
  /\ putLog = <<>>
  /\ view = Snap(0)
  /\ effectDue = TRUE
  /\ boardVersionRef = makeVersion(board[1])
  /\ cache = <<[body |-> Snap(0), version |-> makeVersion(board[1])]>>
  /\ hasOnConflict = TRUE
  /\ ChannelIdle
  /\ timerLive = 0
  /\ lastVersion = makeVersion(board[1])
  /\ pending = <<>> /\ busy = FALSE
  /\ retryTimer = FALSE /\ retryLive = <<>> /\ flights = <<>> /\ wire = {}
  /\ loading = FALSE /\ hyd = "ok" /\ hadCachedSnapshot = FALSE
  /\ sent = <<>> /\ prevSid = 0 /\ nPuts = 0
  /\ schedNo = 0 /\ winStart = 0 /\ failed = <<>>
  /\ conflictTag = NoTag /\ forced = 0 /\ nEnv = 0

NextLive ==
  \/ UserEdit
  \/ OtherWrite
  \/ Deliver
  \/ ScheduleEffect
  \/ TimerFireL
  \/ RetryFireL
  \/ \E i \in 1..Len(flights) : ServePut(i)
  \/ \E i \in 1..Len(flights) : FlushOkL(i)
  \/ \E i \in 1..Len(flights) : FlushConflict(i)
  \/ \E i \in 1..Len(flights) : ReconcileOk(i)

\* Effects and timers run, frames arrive, requests are served and answered.
FairLive ==
  /\ WF_vars(Deliver)
  /\ WF_vars(ScheduleEffect)
  /\ WF_vars(TimerFireL)
  /\ WF_vars(RetryFireL)
  /\ WF_vars(\E i \in 1..Len(flights) : ServePut(i))
  /\ WF_vars(\E i \in 1..Len(flights) : FlushOkL(i))
  /\ WF_vars(\E i \in 1..Len(flights) : FlushConflict(i))
  /\ WF_vars(\E i \in 1..Len(flights) : ReconcileOk(i))

SpecLive == InitLive /\ [][NextLive]_vars /\ FairLive

\* The browser's "online" event: saver.forceFlush(): clearTimeout(timer); flush().
ForceFlushL ==
  /\ timerLive' = 0
  /\ SetClient([flush([Client EXCEPT
                         !.forced = IF busy /\ pending # <<>> THEN pending[1].sid ELSE @])
                  EXCEPT !.nPuts = 0])
  /\ UNCHANGED <<board, wire, schedNo, winStart, nEnv>>
  /\ UNCHANGED cenv

\* The same with requests that fail, fetches of onConflict that fail, and
\* forceFlush: what is fair is as before (a request that fails is answered
\* all the same: its catch branch runs).
NextLiveAll ==
  \/ NextLive
  \/ ForceFlushL
  \/ \E i \in 1..Len(flights) : FlushFail(i)
  \/ \E i \in 1..Len(flights) : ReconcileFail(i)

SpecLiveAll == InitLive /\ [][NextLiveAll]_vars /\ FairLive

----------------------------------------------------------------------------
\* sanitizeBoard of the standalone server, on its own (SpecSanitize).

\* longest list of nodes, and of edges, of an incoming board
MaxLen == 3

\* sanitizeBoard keeps the first 5000 nodes and the first 20000 edges; the
\* model keeps the first MaxNodes and MaxEdges, shorter than the longest
\* incoming list.
MaxNodes == 2
MaxEdges == 2

\* JavaScript values an id or an endpoint of the incoming JSON may be.
Str(v) == [t |-> "string", v |-> v]
Num5 == [t |-> "number", v |-> "5"]
Undefined == [t |-> "undefined", v |-> ""]

\* String(x || "")
StringOr(x) == IF x.t = "undefined" THEN "" ELSE x.v

\* array.slice(0, n)
Slice(seq, n) == SubSeq(seq, 1, IF Len(seq) < n THEN Len(seq) ELSE n)

\* sanitizeNode(node, i): the id is kept when it is a string, else `n-${i}`;
\* the other fields of a node play no part in what happens to edges.
sanitizeNode(node, i) ==
  [id |-> IF node.id.t = "string" THEN node.id.v ELSE "n-" \o ToString(i)]

\* sanitizeEdge(edge, i): null (here <<>>) when an endpoint is empty or the
\* edge is a self-loop, else the edge with its endpoints as strings.
sanitizeEdge(edge, i) ==
  LET e == [id |-> IF edge.id.t = "string" THEN edge.id.v ELSE "e-" \o ToString(i),
            sourceId |-> StringOr(edge.sourceId),
            targetId |-> StringOr(edge.targetId)]
  IN IF e.sourceId = "" \/ e.targetId = "" \/ e.sourceId = e.targetId
     THEN <<>> ELSE <<e>>

\* A mutant: the endpoints are not looked up among the nodes.
KeepEdge_NoFind(e, nodes) == TRUE

\* the two find() tests of the loop over the edges
KeepEdge(e, nodes) ==
  /\ \E k \in 1..Len(nodes) : nodes[k].id = e.sourceId
  /\ \E k \in 1..Len(nodes) : nodes[k].id = e.targetId

\* nodes.map(sanitizeNode), from index i on
RECURSIVE MapNodes(_, _)
MapNodes(nodes, i) ==
  IF nodes = <<>> THEN <<>>
  ELSE <<sanitizeNode(Head(nodes), i)>> \o MapNodes(Tail(nodes), i + 1)

\* the for loop over the edges, from index i on
RECURSIVE EdgeLoop(_, _, _)
EdgeLoop(edges, i, nodes) ==
  IF edges = <<>> THEN <<>>
  ELSE LET e == sanitizeEdge(Head(edges), i)
       IN (IF e # <<>> /\ KeepEdge(e[1], nodes) THEN e ELSE <<>>)
            \o EdgeLoop(Tail(edges), i + 1, nodes)

\* sanitizeBoard(incoming): the nodes and edges of the result.
sanitizeBoard(incoming) ==
  LET nodes == MapNodes(Slice(incoming.nodes, MaxNodes), 0)
  IN [nodes |-> nodes,
      edges |-> EdgeLoop(Slice(incoming.edges, MaxEdges), 0, nodes)]

\* Sequences over S of length at most n.
SeqsUpTo(S, n) == UNION { [1..k -> S] : k \in 0..n }

IncomingNodes == { [id |-> v] : v \in {Str("a"), Str("b"), Num5} }

\* incoming edges: sound, self-loop, endpoint that is no node, endpoint
\* missing, endpoints given as a number and as a generated node id
IncomingEdges ==
  { [id |-> Str("e"), sourceId |-> Str("a"), targetId |-> Str("b")],
    [id |-> Undefined, sourceId |-> Str("a"), targetId |-> Str("a")],
    [id |-> Str("f"), sourceId |-> Str("b"), targetId |-> Str("z")],
    [id |-> Str("g"), sourceId |-> Undefined, targetId |-> Str("b")],
    [id |-> Undefined, sourceId |-> Num5, targetId |-> Str("n-0")] }

\* A board arrives; sanitizeBoard has not been called yet.
InitSanitize ==
  /\ board = <<>> /\ now = 0 /\ putLog = <<>>
  /\ reqs = [r \in ReqIds |-> IdleReq]
  /\ view = EmptyBody /\ effectDue = FALSE /\ boardVersionRef = NoTag
  /\ cache = <<>> /\ hasOnConflict = TRUE /\ timerLive = 0
  /\ lastVersion = NoTag /\ pending = <<>> /\ busy = FALSE
  /\ retryTimer = FALSE /\ retryLive = <<>> /\ flights = <<>> /\ wire = {}
  /\ loading = TRUE /\ hyd = "mount" /\ hadCachedSnapshot = FALSE
  /\ ws = [id |-> 0, state |-> "closed"]
  /\ reconnectTimer = [ref |-> FALSE, live |-> 0]
  /\ pendingUpdates = <<>>
  /\ up = [k \in Conns |-> <<>>]
  /\ subs = [p \in Projects |-> {}]
  /\ down = {}
  /\ sent = <<>> /\ prevSid = 0 /\ nPuts = 0
  /\ schedNo = 0 /\ winStart = 0 /\ failed = <<>>
  /\ conflictTag = NoTag /\ forced = 0 /\ nEnv = 0
  /\ localStorage = <<>>
  /\ \E nodes \in SeqsUpTo(IncomingNodes, MaxLen), edges \in SeqsUpTo(IncomingEdges, MaxLen) :
       call = [fn |-> "sanitizeBoard", done |-> FALSE,
               arg |-> [nodes |-> nodes, edges |-> edges],
               ret |-> [nodes |-> <<>>, edges |-> <<>>]]

\* const clean = sanitizeBoard(req.body, id)
CallSanitizeBoard ==
  /\ ~call.done
  /\ call' = [call EXCEPT !.done = TRUE, !.ret = sanitizeBoard(call.arg)]
  /\ UNCHANGED <<board, now, reqs, putLog, localStorage>>
  /\ UNCHANGED <<view, effectDue, boardVersionRef, cache, hasOnConflict, timerLive,
                 lastVersion, pending, busy, retryTimer, retryLive, flights, wire,
                 loading, hyd, hadCachedSnapshot, chan,
                 sent, prevSid, nPuts, schedNo, winStart, failed, conflictTag,
                 forced, nEnv>>

NextSanitize == CallSanitizeBoard

SpecSanitize == InitSanitize /\ [][NextSanitize]_vars

----------------------------------------------------------------------------
\* normalizeTags of the standalone server, on its own (SpecTags).  A string
\* is the sequence of its characters.

\* longest string in an incoming tags array
MaxTagLen == 3

\* normalizeTags keeps at most 64 tags; the model keeps at most
\* MaxTagCount, of arrays with up to MaxTagCount + 1 entries.
MaxTagCount == 2

\* String.prototype.trim
RECURSIVE trim(_)
trim(t) ==
  IF t # <<>> /\ Head(t) = " " THEN trim(Tail(t))
  ELSE IF t # <<>> /\ t[Len(t)] = " " THEN trim(SubSeq(t, 1, Len(t) - 1))
  ELSE t

\* replace(/^#+/, "")
RECURSIVE stripHashes(_)
stripHashes(t) == IF t # <<>> /\ Head(t) = "#" THEN stripHashes(Tail(t)) ELSE t

\* String.prototype.toLowerCase
toLowerCase(t) == [i \in 1..Len(t) |-> IF t[i] = "A" THEN "a" ELSE t[i]]

\* the for loop of normalizeTags, from entry i on
RECURSIVE TagLoop(_, _, _)
TagLoop(arr, i, out) ==
  IF i > Len(arr) THEN out
  ELSE IF arr[i].t # "string" THEN TagLoop(arr, i + 1, out)
  ELSE LET t == toLowerCase(stripHashes(trim(arr[i].v)))
       IN IF /\ t # <<>>
             /\ Len(out) < MaxTagCount
             /\ \A j \in 1..Len(out) : out[j].v # t
          THEN TagLoop(arr, i + 1, Append(out, Str(t)))
          ELSE TagLoop(arr, i + 1, out)

\* normalizeTags(arr), arr an array
normalizeTags(arr) == TagLoop(arr, 1, <<>>)

\* entries of an incoming tags array: strings of blanks, '#' and letters,
\* and a number
TagEntries ==
  { Str(t) : t \in SeqsUpTo({" ", "#", "A"}, MaxTagLen) } \cup {[t |-> "number", v |-> <<"5">>]}

InitTags ==
  /\ board = <<>> /\ now = 0 /\ putLog = <<>>
  /\ reqs = [r \in ReqIds |-> IdleReq]
  /\ view = EmptyBody /\ effectDue = FALSE /\ boardVersionRef = NoTag
  /\ cache = <<>> /\ hasOnConflict = TRUE /\ timerLive = 0
  /\ lastVersion = NoTag /\ pending = <<>> /\ busy = FALSE
  /\ retryTimer = FALSE /\ retryLive = <<>> /\ flights = <<>> /\ wire = {}
  /\ loading = TRUE /\ hyd = "mount" /\ hadCachedSnapshot = FALSE
  /\ ws = [id |-> 0, state |-> "closed"]
  /\ reconnectTimer = [ref |-> FALSE, live |-> 0]
  /\ pendingUpdates = <<>>
  /\ up = [k \in Conns |-> <<>>]
  /\ subs = [p \in Projects |-> {}]
  /\ down = {}
  /\ sent = <<>> /\ prevSid = 0 /\ nPuts = 0
  /\ schedNo = 0 /\ winStart = 0 /\ failed = <<>>
  /\ conflictTag = NoTag /\ forced = 0 /\ nEnv = 0
  /\ localStorage = <<>>
  /\ \E arr \in SeqsUpTo(TagEntries, MaxTagCount + 1) :
       call = [fn |-> "normalizeTags", done |-> FALSE, arg |-> arr, ret |-> <<>>]

\* d.tags = normalizeTags(d.tags)
CallNormalizeTags ==
  /\ ~call.done
  /\ call' = [call EXCEPT !.done = TRUE, !.ret = normalizeTags(call.arg)]
  /\ UNCHANGED <<board, now, reqs, putLog, localStorage>>
  /\ UNCHANGED <<view, effectDue, boardVersionRef, cache, hasOnConflict, timerLive,
                 lastVersion, pending, busy, retryTimer, retryLive, flights, wire,
                 loading, hyd, hadCachedSnapshot, chan,
                 sent, prevSid, nPuts, schedNo, winStart, failed, conflictTag,
                 forced, nEnv>>

NextTags == CallNormalizeTags

SpecTags == InitTags /\ [][NextTags]_vars

----------------------------------------------------------------------------
\* The standalone server's board routes, for one board id (SpecServer):
\* GET /api/board/:id and POST /api/board/:id.  board holds the row of
\* prisma.board with its nodes and edges, reqs the handlers under way.

\* req.user?.id of a request without a session
NoUser == "-"
UserIds == {"A", "B"}

\* a handler that has not started
IdleCall ==
  [pc |-> "idle", method |-> "-", user |-> NoUser, visibility |-> "public",
   nodes |-> 0, status |-> 0, ret |-> <<>>]

\* writeBoardToDb's transaction: board.upsert, then the nodes and edges
\* are deleted and created from the clean board.  On update the owner is
\* set only for a private board saved with an ownerUserId.
writeBoardToDb(b, cleanBoard, ownerUserId) ==
  IF b = <<>>
  THEN <<[userId |-> ownerUserId, visibility |-> cleanBoard.visibility,
          nodes |-> cleanBoard.nodes]>>
  ELSE <<[userId |-> IF cleanBoard.visibility = "private" /\ ownerUserId # NoUser
                     THEN ownerUserId ELSE b[1].userId,
          visibility |-> cleanBoard.visibility,
          nodes |-> cleanBoard.nodes]>>

\* boardHandler.createBoard up to the write: a private board needs a
\* session (401 without), and only then is req.user looked up; sanitizeBoard;
\* writeBoardToDb(clean, req.user?.id || null).
SaveBoard(r) ==
  /\ CanStart(r)
  /\ \E u \in UserIds \cup {NoUser}, v \in {"private", "public"}, k \in 1..2 :
       LET req == [IdleCall EXCEPT !.method = "POST", !.user = u,
                                   !.visibility = v, !.nodes = k]
           ownerUserId == IF v = "private" THEN u ELSE NoUser
       IN IF v = "private" /\ u = NoUser
          THEN /\ reqs' = [reqs EXCEPT ![r] = [req EXCEPT !.pc = "done", !.status = 401]]
               /\ UNCHANGED board
          ELSE /\ board' = writeBoardToDb(board, [visibility |-> v, nodes |-> k],
                                          ownerUserId)
               /\ reqs' = [reqs EXCEPT ![r] = [req EXCEPT !.pc = "written"]]
  /\ UNCHANGED <<now, putLog>>
  /\ UNCHANGED cvars

\* writeBoardToDb's return readBoardFromDb(id), and res.json(saved)
SaveAnswer(r) ==
  /\ reqs[r].pc = "written"
  /\ reqs' = [reqs EXCEPT ![r].pc = "done", ![r].status = 200, ![r].ret = board]
  /\ UNCHANGED <<board, now, putLog>>
  /\ UNCHANGED cvars

\* boardHandler.getBoardById: the session is looked up, then the row's id,
\* userId and visibility are read; 404 when there is no row or the board is
\* private with an owner who is not the requester.
GetMeta(r) ==
  /\ CanStart(r)
  /\ \E u \in UserIds \cup {NoUser} :
       LET req == [IdleCall EXCEPT !.method = "GET", !.user = u]
       IN reqs' = [reqs EXCEPT ![r] =
            IF board = <<>>
            THEN [req EXCEPT !.pc = "done", !.status = 404]
            ELSE IF /\ board[1].visibility = "private"
                    /\ board[1].userId # NoUser
                    /\ board[1].userId # u
            THEN [req EXCEPT !.pc = "done", !.status = 404]
            ELSE [req EXCEPT !.pc = "read"]]
  /\ UNCHANGED <<board, now, putLog>>
  /\ UNCHANGED cvars

\* boardHandler.getBoardById: readBoardFromDb(id) and res.json(board)
GetRead(r) ==
  /\ reqs[r].pc = "read"
  /\ reqs' = [reqs EXCEPT ![r] =
       IF board = <<>> THEN [@ EXCEPT !.pc = "done", !.status = 404]
       ELSE [@ EXCEPT !.pc = "done", !.status = 200, !.ret = board]]
  /\ UNCHANGED <<board, now, putLog>>
  /\ UNCHANGED cvars

\* There is no board yet, or one saved earlier: private with its owner,
\* or public with or without one.
InitServer ==
  /\ board \in {<<>>} \cup
       { <<[userId |-> o, visibility |-> v, nodes |-> 0]>> :
           o \in {"A", NoUser}, v \in {"private", "public"} }
  /\ now = 0
  /\ reqs = [r \in ReqIds |-> IdleCall]
  /\ putLog = <<>>
  /\ ClientIdle

NextServer ==
  \/ \E r \in ReqIds : SaveBoard(r)
  \/ \E r \in ReqIds : SaveAnswer(r)
  \/ \E r \in ReqIds : GetMeta(r)
  \/ \E r \in ReqIds : GetRead(r)

SpecServer == InitServer /\ [][NextServer]_vars

----------------------------------------------------------------------------
\* The local cache: cacheKey, loadCache, saveCache over localStorage, on
\* their own (SpecCache).

CACHE_PREFIX == "papertrail-board"

\* A mutant: one key for every project.
cacheKey_Shared(projectId) == CACHE_PREFIX

\* cacheKey: `${CACHE_PREFIX}:${projectId}`
cacheKey(projectId) == CACHE_PREFIX \o ":" \o projectId

\* What localStorage holds under a key is a string: the JSON text of a value,
\* or a text that is no JSON (the empty string among them).
JsonText(v) == [kind |-> "json", doc |-> <<v>>, text |-> ""]
OtherText(t) == [kind |-> "text", doc |-> <<>>, text |-> t]

\* the snapshots handed to saveCache
CacheValues == { [body |-> Snap(k), version |-> NoTag] : k \in 1..2 }

\* localStorage.getItem(key): null is <<>>
getItem(ls, key) == IF key \in DOMAIN ls THEN <<ls[key]>> ELSE <<>>

\* localStorage.setItem(key, raw)
setItem(ls, key, raw) ==
  [k \in DOMAIN ls \cup {key} |-> IF k = key THEN raw ELSE ls[k]]

\* loadCache(projectId), getItem not throwing: null (<<>>) when there is no
\* item or it is the empty string, or when JSON.parse throws.
loadCache(ls, projectId) ==
  LET raw == getItem(ls, cacheKey(projectId))
  IN IF raw = <<>> THEN <<>>
     ELSE IF raw[1].kind = "text" THEN <<>>
     ELSE raw[1].doc

\* A mutant: an item is written only when there is none yet.
saveCache_KeepFirst(ls, projectId, snapshot, ok) ==
  IF ok /\ cacheKey(projectId) \notin DOMAIN ls
  THEN [ls |-> setItem(ls, cacheKey(projectId), JsonText(snapshot)), threw |-> FALSE]
  ELSE [ls |-> ls, threw |-> FALSE]

\* saveCache(projectId, snapshot): setItem of the JSON text in a try block;
\* when setItem throws (quota) nothing is stored and the empty catch block
\* ends the call. ls is the storage afterwards, threw whether the call threw.
saveCache(ls, projectId, snapshot, ok) ==
  IF ok
  THEN [ls |-> setItem(ls, cacheKey(projectId), JsonText(snapshot)), threw |-> FALSE]
  ELSE [ls |-> ls, threw |-> FALSE]

\* The frame of a cache call: everything but localStorage and call.
nocache ==
  <<board, now, reqs, putLog, view, effectDue, boardVersionRef, cache,
    hasOnConflict, timerLive, lastVersion, pending, busy, retryTimer,
    retryLive, flights, wire, loading, hyd, hadCachedSnapshot, chan,
    sent, prevSid, nPuts, schedNo, winStart, failed, conflictTag, forced, nEnv>>

\* await saveCache(projectId, snapshot); passed and kept record, per
\* project, the last snapshot handed over and the last one setItem took.
SaveCache ==
  \E b \in Projects, v \in CacheValues, ok \in BOOLEAN :
    /\ localStorage' = saveCache(localStorage, b, v, ok).ls
    /\ call' = [call EXCEPT !.fn = "saveCache", !.b = b, !.ret = <<>>,
                            !.threw = saveCache(localStorage, b, v, ok).threw,
                            !.passed[b] = <<v>>,
                            !.kept[b] = IF ok THEN <<v>> ELSE @]
    /\ UNCHANGED nocache

\* const cached = await loadCache(projectId); getItem itself may throw
\* (storage not accessible), which loadCache answers with null.
LoadCache ==
  \E b \in Projects, ok \in BOOLEAN :
    /\ call' = [call EXCEPT !.fn = "loadCache", !.b = b,
                            !.ret = IF ok THEN loadCache(localStorage, b) ELSE <<>>,
                            !.read = ok]
    /\ UNCHANGED localStorage
    /\ UNCHANGED nocache

\* Nothing was ever saved; localStorage holds nothing under a project's key,
\* or a text that does not parse.
InitCache ==
  /\ board = <<>> /\ now = 0 /\ putLog = <<>>
  /\ reqs = [r \in ReqIds |-> IdleReq]
  /\ view = EmptyBody /\ effectDue = FALSE /\ boardVersionRef = NoTag
  /\ cache = <<>> /\ hasOnConflict = TRUE /\ timerLive = 0
  /\ lastVersion = NoTag /\ pending = <<>> /\ busy = FALSE
  /\ retryTimer = FALSE /\ retryLive = <<>> /\ flights = <<>> /\ wire = {}
  /\ loading = TRUE /\ hyd = "mount" /\ hadCachedSnapshot = FALSE
  /\ ws = [id |-> 0, state |-> "closed"]
  /\ reconnectTimer = [ref |-> FALSE, live |-> 0]
  /\ pendingUpdates = <<>>
  /\ up = [k \in Conns |-> <<>>]
  /\ subs = [p \in Projects |-> {}]
  /\ down = {}
  /\ sent = <<>> /\ prevSid = 0 /\ nPuts = 0
  /\ schedNo = 0 /\ winStart = 0 /\ failed = <<>>
  /\ conflictTag = NoTag /\ forced = 0 /\ nEnv = 0
  /\ \E junk \in SUBSET Projects, t \in {"", "{"} :
       localStorage = [k \in { cacheKey(p) : p \in junk } |-> OtherText(t)]
  /\ call = [fn |-> "-", b |-> ProjectId, ret |-> <<>>, read |-> TRUE,
             threw |-> FALSE,
             passed |-> [p \in Projects |-> <<>>],
             kept |-> [p \in Projects |-> <<>>]]

NextCache ==
  \/ SaveCache
  \/ LoadCache

SpecCache == InitCache /\ [][NextCache]_vars

----------------------------------------------------------------------------
\* applyRemoteSnapshot on the snapshots the store produces (SpecReconcile):
\* other clients write the board, and the client applies the snapshots it is
\* handed, from notifications in any order and any number of times, and
\* from its own fetches.

\* handleWsPacket -> applyRemoteSnapshot(snapshot) for a published snapshot
ApplyNotified ==
  /\ \E packet \in wire : SetClient(applyRemoteSnapshot(Client, packet.snapshot))
  /\ UNCHANGED <<board, timerLive, wire, schedNo, winStart, nEnv>>
  /\ UNCHANGED cenv

\* fetchBoard resolves (hydrate, onConflict, handleWsPacket without a
\* snapshot) -> applyRemoteSnapshot(remote)
ApplyFetched ==
  /\ SetClient(applyRemoteSnapshot(Client, Snapshot(board[1])))
  /\ UNCHANGED <<board, timerLive, wire, schedNo, winStart, nEnv>>
  /\ UNCHANGED cenv

\* The board exists; the view is mounted and has not applied anything yet.
InitReconcile ==
  /\ \E k \in StartCounters :
       board = <<[NewBoard(1, Snap(0), 0) EXCEPT !.version = k]>>
  /\ now = 0
  /\ reqs = [r \in ReqIds |-> IdleReq]
  /\ putLog = <<>>
  /\ ClientIdle

NextReconcile ==
  \/ Tick
  \/ OtherWrite
  \/ ApplyNotified
  \/ ApplyFetched

SpecReconcile == InitReconcile /\ [][NextReconcile]_vars

----------------------------------------------------------------------------
\* Properties of the store (SpecStore).

IsPut(r) == reqs[r].method = "PUT"

\* C1: of two PUT requests that carry the same version tag V, both having
\* read the store at tag V, never both are accepted (answered 200).
C1_AtMostOneWriterPerVersion ==
  \A r1, r2 \in ReqIds :
    ( /\ r1 # r2 /\ IsPut(r1) /\ IsPut(r2)
      /\ reqs[r1].version # NoTag
      /\ reqs[r1].version = reqs[r2].version
      /\ reqs[r1].existing = reqs[r1].version
      /\ reqs[r2].existing = reqs[r2].version )
    => ~(reqs[r1].status = 200 /\ reqs[r2].status = 200)

\* C2: a PUT whose version tag differs from the tag the handler reads from
\* the store is answered 409 with that current tag, and writes nothing.
C2_StaleTagRejected ==
  \A r \in ReqIds :
    ( /\ IsPut(r) /\ reqs[r].pc # "idle"
      /\ reqs[r].existing # NoTag
      /\ reqs[r].version # NoTag
      /\ reqs[r].version # reqs[r].existing )
    => /\ reqs[r].pc = "done"
       /\ reqs[r].status = 409
       /\ reqs[r].tag = reqs[r].existing
       /\ ~reqs[r].wrote

\* C2, the store side: a handler step that ends a PUT with 409 changes no row.
C2_ConflictWritesNothing ==
  [][\A r \in ReqIds : reqs'[r].status = 409 /\ reqs[r].status # 409
        => board' = board]_vars

\* a stale PUT was answered 409 after the board had been replaced
C2_Witness ==
  \E r \in ReqIds :
    /\ IsPut(r) /\ reqs[r].status = 409
    /\ reqs[r].version \notin {NoTag, ForgedTag}
    /\ board # <<>> /\ board[1].version >= 1

\* C3: the tags of the 200 answers of PUT are strictly increasing in
\* completion order (by the store's write counter): no repeat, no regression.
C3_ReturnedTagsIncrease ==
  \A i, j \in 1..Len(putLog) :
    i < j => /\ putLog[i].tag # putLog[j].tag
             /\ putLog[i].tag.n < putLog[j].tag.n

\* C4: every change of an existing board is one whole replacement: the
\* nodes and edges are exactly those of one request in its transaction and
\* the counter is the previous counter plus 1; a request whose transaction
\* aborts (500) leaves the row, its nodes and its edges as they were.
C4_AllOrNothing ==
  [][board # <<>> =>
       \/ board' = board
       \/ \E r \in ReqIds :
            /\ reqs[r].pc = "txn" /\ reqs'[r].pc = "reread"
            /\ board'[1].nodes = reqs[r].body.nodes
            /\ board'[1].edges = reqs[r].body.edges
            /\ board'[1].version = board[1].version + 1]_vars

\* one PUT aborted in its transaction after another PUT had replaced the
\* board, and the board still holds what that other PUT wrote
C4_Witness ==
  \E r1, r2 \in ReqIds :
    /\ IsPut(r1) /\ reqs[r1].wrote
    /\ IsPut(r2) /\ reqs[r2].status = 500 /\ r2 > r1
    /\ board # <<>>
    /\ board[1].nodes = reqs[r1].body.nodes
    /\ board[1].edges = reqs[r1].body.edges
    /\ board[1].nodes # reqs[r2].body.nodes
    /\ board[1].version = 1

----------------------------------------------------------------------------
\* Properties of the saver (SpecSaver).

\* the flush that was answered 409 has run to its end
ConflictHandled == conflictTag # NoTag /\ flights = <<>>

\* C5: once a flush was answered 409 and onConflict has completed, the
\* snapshot that conflicted is gone: it is not the saver's pending snapshot
\* and no later PUT carries it.
C5_ConflictSnapshotDiscarded ==
  hasOnConflict =>
    /\ ConflictHandled => (pending = <<>> \/ pending[1].src # "conflict")
    /\ sent # <<>> => sent[1].src # "conflict"

\* C6: the PUT that follows a PUT answered 409 for tag V does not carry V
\* (stated for a saver that was given onConflict, whose fetch may fail).
C6_NoBlindRetry ==
  (hasOnConflict /\ sent # <<>>) =>
    \/ sent[1].afterConflict = NoTag
    \/ sent[1].version # sent[1].afterConflict

\* C7: a PUT that carries a snapshot scheduled in the last debounce window
\* carries the last snapshot scheduled in that window (the calls of one
\* window give one PUT, of the last snapshot only).
C7_DebounceCollapsing ==
  (sent # <<>> /\ sent[1].sid >= winStart) => sent[1].sid = schedNo

\* C8: after a flush failed on the network the buffered snapshot is the
\* newest scheduled one (the one scheduled during the flight, if any), and
\* a retry writes the newest snapshot scheduled before it.
C8_NewerWriteSupersedes ==
  /\ (pending # <<>> /\ pending[1].src = "netfail") => pending[1].sid = schedNo
  /\ (sent # <<>> /\ sent[1].src = "netfail") => sent[1].sid = sent[1].newest

\* C9: at most one flush (so at most one PUT) is in flight, at most one
\* snapshot is buffered, and the PUTs leave in the order in which their
\* snapshots were scheduled.
C9_OneInFlightInOrder ==
  /\ Len(flights) <= 1
  /\ Len(pending) <= 1
  /\ Len(flights) = 1 <=> busy
  /\ sent # <<>> => prevSid <= sent[1].sid

\* two PUTs of different snapshots have left in order and a third snapshot
\* was scheduled while the second PUT is in flight
C9_Witness ==
  /\ sent # <<>> /\ 0 < prevSid /\ prevSid < sent[1].sid
  /\ busy /\ pending # <<>> /\ pending[1].sid > sent[1].sid
  /\ flights[1].phase = "sent"

\* C10: after a flush failed on the network the same payload is buffered
\* again and a retry timer of 5000 ms is armed, whatever the number of
\* failures before; never more than one retry timer is armed.
C10_RetryAfterFailure ==
  /\ Len(retryLive) <= 1
  /\ retryTimer <=> retryLive # <<>>
  /\ \A i \in 1..Len(retryLive) : retryLive[i] = RETRY_MS
  /\ failed # <<>> =>
       /\ pending = <<[failed[1] EXCEPT !.src = "netfail"]>>
       /\ retryLive = <<RETRY_MS>>
       /\ ~busy

\* a retry of a failed flush has failed as well and is buffered again
C10_Witness ==
  /\ failed # <<>> /\ failed[1].src = "netfail"
  /\ nPuts >= 2 /\ retryLive # <<>>

\* C12: forceFlush() cancels the debounce timer and calls flush(); when a
\* flush is in flight the pending snapshot stays buffered until it leaves in
\* a PUT (or a newer snapshot is scheduled over it): it is not lost.
C12_ForceFlushKeepsPending ==
  forced > 0 => (pending # <<>> /\ pending[1].sid = forced)

----------------------------------------------------------------------------
\* Properties of one client alone (SpecSolo).

\* C11: schedule() is accepted while a flush is in flight; when the flush
\* succeeds lastVersion becomes the returned tag and the snapshot scheduled
\* during the flight leaves at once with that tag, not with the tag it got
\* at schedule(); with no other writer every PUT carries the store's current
\* tag and none is answered 409.
C11_FollowUpUsesReturnedTag ==
  /\ [](\A i \in 1..Len(flights) :
          /\ flights[i].status # 409
          /\ flights[i].phase = "sent" =>
                flights[i].payload.version = makeVersion(board[1]))
  /\ [][( /\ flights # <<>> /\ flights[1].phase = "replied"
          /\ flights[1].status = 200 /\ pending # <<>>
          /\ flights' # <<>> /\ flights'[1].phase = "sent" )
        => /\ lastVersion' = flights[1].res
           /\ flights'[1].payload.sid = pending[1].sid
           /\ flights'[1].payload.version = flights[1].res
           /\ flights'[1].payload.version # pending[1].version]_vars

\* the snapshot scheduled during the first flight was written right after
\* it and accepted
C11_Witness ==
  /\ nPuts = 2 /\ 0 < prevSid /\ prevSid < sent[1].sid
  /\ flights # <<>> /\ flights[1].status = 200 /\ flights[1].res.n = 2
  /\ sent[1].version.n = 1

----------------------------------------------------------------------------
\* Properties of applyRemoteSnapshot (SpecReconcile).

\* tag a comes from an earlier write of the board than tag b (the store's
\* counter goes up by one with every write)
WrittenBefore(a, b) == a.n < b.n

\* the local view, as applyRemoteSnapshot would leave it
Applied(c, snapshot) ==
  /\ c.view = Body(NoTitle, snapshot.nodes, snapshot.edges)
  /\ c.boardVersionRef = snapshot.version
  /\ c.lastVersion = snapshot.version
  /\ c.cache = <<[body |-> Body(NoTitle, snapshot.nodes, snapshot.edges),
                  version |-> snapshot.version]>>

\* C16: applying a snapshot twice leaves the same state as applying it
\* once, and a snapshot not newer than the known version (one the store
\* wrote before it, or the same one) changes nothing of the client.
C16_IdempotentMonotone ==
  \A packet \in wire :
    LET once == applyRemoteSnapshot(Client, packet.snapshot)
    IN /\ applyRemoteSnapshot(once, packet.snapshot) = once
       /\ ( /\ boardVersionRef # NoTag
            /\ \/ packet.version = boardVersionRef
               \/ WrittenBefore(packet.version, boardVersionRef) )
          => once = Client

\* C17: a fetched snapshot that is strictly newer than the known version
\* replaces nodes, edges, boardVersionRef, lastVersion and the cache entry.
C17_FetchAndReplace ==
  LET remote == Snapshot(board[1])
  IN (boardVersionRef # NoTag /\ WrittenBefore(boardVersionRef, remote.version))
       => Applied(applyRemoteSnapshot(Client, remote), remote)

----------------------------------------------------------------------------
\* Properties of hydration (SpecHydrate).

\* C19: whatever the cache held at mount, when the hydration fetch succeeds
\* (and the user has not edited meanwhile) hydrate ends with the nodes and
\* edges of the store's snapshot and with its tag as the expected version.
C19_HydrationConverges ==
  [][( /\ hyd = "fetch" /\ hyd' = "ok"
       /\ view = IF cache # <<>> THEN cache[1].body ELSE EmptyBody )
     => /\ view' = Body(NoTitle, board[1].nodes, board[1].edges)
        /\ lastVersion' = makeVersion(board[1])]_vars

\* the nodes and edges are some edit of the user in this run
IsUserEdit(body) == \E k \in 1..MaxEnv : body = Snap(k)

\* C20: a PUT of nodes and edges the user edited, sent to a board that
\* exists, carries a version tag (the store accepts a PUT without one
\* unconditionally).
C20_EditsCarryTag ==
  (sent # <<>> /\ IsUserEdit(sent[1].body) /\ board # <<>>)
    => sent[1].version # NoTag

----------------------------------------------------------------------------
\* Properties of the realtime channel (SpecChannel).

\* the frame is an update notification of this view for the tag
IsOwnNotification(frame, tag) ==
  /\ frame.type = "pt:update"
  /\ frame.payload.projectId = ProjectId
  /\ frame.payload.version = tag
  /\ frame.payload.sourceId = ClientId

\* C13: when a PUT of the saver is answered 200, an update notification
\* with the project id, the returned tag and this client's id is sent on
\* the socket if it is open and queued in pendingUpdates otherwise.
C13_SaveIsAnnounced ==
  [][( /\ flights # <<>> /\ flights[1].phase = "replied"
       /\ flights[1].status = 200 /\ flights' # flights )
     => IF ws.state = "open"
        THEN \E i \in 1..Len(up'[ws.id]) :
               IsOwnNotification(up'[ws.id][i], flights[1].res)
        ELSE \E i \in 1..Len(pendingUpdates') :
               IsOwnNotification(pendingUpdates'[i], flights[1].res)]_vars

\* C14: the hub sends no frame back to the connection it came from, and a
\* packet whose sourceId is this view's client id changes nothing of the
\* view when it is received.
C14_EchoSuppression ==
  /\ [](\A f \in down : f.to # f.from)
  /\ [][\A f \in down :
          ( /\ ws.state = "open" /\ ws' = ws /\ f.to = ws.id /\ down' = down \ {f}
            /\ f.payload.sourceId = ClientId )
          => UNCHANGED <<view, effectDue, boardVersionRef, lastVersion, cache>>]_vars

\* the other client, subscribed to the channel, has published a packet that
\* carries this view's id and a tag the view does not know; the hub has
\* sent it to the view's open socket and not back to the sender
C14_Witness ==
  /\ ws.state = "open" /\ Foreign \in subs[ProjectId]
  /\ \E f \in down :
       /\ f.to = ws.id /\ f.from = Foreign
       /\ f.payload.projectId = ProjectId
       /\ f.payload.sourceId = ClientId
       /\ f.payload.snapshot # <<>>
       /\ f.payload.version \notin {NoTag, boardVersionRef}

\* C18: the view holds the version before the board's current one, and the
\* notification of the write that made the current version is delivered to
\* its socket: after handleWsPacket the view holds the current version and
\* the store's nodes and edges.
C18_NotifiedClientConverges ==
  [][\A f \in down :
       ( /\ ws.state = "open" /\ ws' = ws /\ f.to = ws.id /\ down' = down \ {f}
         /\ f.payload.projectId = ProjectId
         /\ f.payload.sourceId # ClientId
         /\ f.payload.version = makeVersion(board[1])
         /\ boardVersionRef # NoTag
         /\ boardVersionRef.n + 1 = f.payload.version.n )
       => /\ boardVersionRef' = makeVersion(board[1])
          /\ view' = Body(NoTitle, board[1].nodes, board[1].edges)]_vars

----------------------------------------------------------------------------
\* Properties of the running system (SpecLive).

\* C15: with finitely many edits and writes of other clients the system
\* quiesces: from some point on no PUT is in flight and no snapshot is
\* buffered for one.
C15_Quiesces == <>[](flights = <<>> /\ pending = <<>>)

----------------------------------------------------------------------------
\* Properties of the realtime channel, continued (SpecChannel).

\* C21: a socket that closes arms the reconnect timer, and never more than
\* one timer is armed; when a socket opens, the first frame sent on it is
\* the pt:join for the view's project, before any queued update; a
\* connection of the view is subscribed only by its own pt:join, only to
\* the view's project and only while it is the open socket, and frames
\* are on their way only to subscribed connections.
C21_Resubscription ==
  /\ [](/\ reconnectTimer.live <= 1
        /\ \A p \in Projects : \A k \in subs[p] \ {Foreign} :
             k = ws.id /\ ws.state = "open" /\ p = ProjectId
        /\ \A f \in down : f.to # Foreign => f.to \in subs[f.payload.projectId])
  /\ [][/\ (ws.state # "closed" /\ ws'.state = "closed") =>
             (reconnectTimer'.ref /\ reconnectTimer'.live = 1)
        /\ (ws.state = "connecting" /\ ws'.state = "open") =>
             (up'[ws.id] # <<>> /\ Head(up'[ws.id]) = JoinFrame(ProjectId))
        /\ \A k \in Conns \ {Foreign} :
             (k \in subs'[ProjectId] /\ k \notin subs[ProjectId]) =>
               (up[k] # <<>> /\ Head(up[k]) = JoinFrame(ProjectId))]_vars

\* The view is on its second socket, has joined again, and a notification
\* is on its way to it over that socket.
C21_Witness ==
  /\ ws.id = 2 /\ ws.state = "open" /\ ws.id \in subs[ProjectId]
  /\ \E f \in down : f.to = ws.id

----------------------------------------------------------------------------
\* Properties of the fanout (SpecFanout).

\* C22: the frames the hub sends out for a pt:update go to connections
\* subscribed to the channel of the update's project, the sender excepted;
\* and a packet whose projectId is not the project the view shows changes
\* neither the view's nodes and edges nor the versions it knows.
C22_BoardIsolation ==
  [][/\ up' # up =>
          \A f \in down' \ down : f.to \in subs[f.payload.projectId] \ {f.from}
     /\ \A f \in down :
          (/\ ws.state = "open" /\ ws' = ws
           /\ f.to = ws.id /\ down' = down \ {f}
           /\ f.payload.projectId # ProjectId)
          => UNCHANGED <<view, effectDue, boardVersionRef, lastVersion, cache>>]_vars

\* A packet for the other project, with a snapshot and a tag the view does
\* not know and another client's id, is about to be handled by the view.
C22_Witness ==
  /\ ws.state = "open"
  /\ \E f \in down :
       /\ f.to = ws.id
       /\ f.payload.projectId = OtherProject
       /\ f.payload.sourceId # ClientId
       /\ f.payload.snapshot # <<>>
       /\ f.payload.version # NoTag
       /\ f.payload.version # boardVersionRef

----------------------------------------------------------------------------
\* Properties of the store, continued (SpecStore).

\* C23: a POST handler that answers while the board exists answers 409 and
\* leaves the board as it is; one that answers while there is no board
\* answers 201 and has created the board with version counter 0 and the
\* nodes and edges of its request.
C23_PostCreatesOnce ==
  [][\A r \in ReqIds :
       (reqs[r].pc # "done" /\ reqs'[r].pc = "done" /\ reqs'[r].method = "POST")
       => IF board # <<>>
          THEN reqs'[r].status = 409 /\ board' = board
          ELSE /\ reqs'[r].status = 201
               /\ board' # <<>>
               /\ board'[1].version = 0
               /\ board'[1].nodes = reqs'[r].body.nodes
               /\ board'[1].edges = reqs'[r].body.edges
               /\ reqs'[r].tag = makeVersion(board'[1])]_vars

----------------------------------------------------------------------------
\* Properties of the store beside the delete hook (SpecDelete).

\* C24: a PUT handler that finds no board answers 404 at once, and no step
\* of a PUT handler taken while there is no board creates one (with it
\* nodes or edges), whatever tag the request carries.
C24_PutMissingIs404 ==
  [][\A r \in ReqIds :
       (reqs'[r] # reqs[r] /\ reqs'[r].method = "PUT" /\ board = <<>>)
       => /\ board' = <<>>
          /\ reqs[r].pc = "idle" =>
               (reqs'[r].pc = "done" /\ reqs'[r].status = 404 /\ ~reqs'[r].wrote)]_vars

\* A PUT that carried a tag was answered 404 and there is no board.
C24_Witness ==
  /\ board = <<>>
  /\ \E r \in ReqIds :
       /\ reqs[r].method = "PUT" /\ reqs[r].pc = "done" /\ reqs[r].status = 404
       /\ reqs[r].version # NoTag

\* C27: onDelete removes the board with all its nodes and edges in one
\* transaction: its transaction step leaves no board, or (a statement
\* failed, or the row was gone already) leaves everything as it was; and
\* a call that finds no board, or whose row has been deleted meanwhile,
\* returns without throwing and changes nothing.
C27_DeleteWholeAndIdempotent ==
  [][\A r \in ReqIds :
       /\ (reqs[r].pc = "deltxn" /\ reqs'[r].pc = "done") =>
            \/ /\ board # <<>> /\ board[1].id = reqs[r].bid
               /\ board' = <<>> /\ reqs'[r].status = Returned
            \/ /\ board # <<>> /\ board[1].id = reqs[r].bid
               /\ board' = board /\ reqs'[r].status = Threw
            \/ /\ board = <<>> \/ board[1].id # reqs[r].bid
               /\ board' = board /\ reqs'[r].status = Returned
       /\ (reqs[r].pc = "idle" /\ reqs'[r].method = "onDelete" /\ board = <<>>) =>
            (reqs'[r].pc = "done" /\ reqs'[r].status = Returned /\ board' = board)]_vars

\* One call has deleted a board that had nodes and edges, and a later call
\* found no board and returned.
C27_Witness ==
  /\ board = <<>>
  /\ \E r1, r2 \in ReqIds :
       /\ r1 < r2
       /\ reqs[r1].method = "onDelete" /\ reqs[r1].pc = "done" /\ reqs[r1].wrote
       /\ reqs[r2].method = "onDelete" /\ reqs[r2].pc = "done"
       /\ reqs[r2].status = Returned /\ ~reqs[r2].wrote

----------------------------------------------------------------------------
\* Referential integrity of what is stored (SpecStore).

NodeIds(b) == { n.id : n \in b.nodes }

\* C25: every edge stored for the board has its source and its target
\* among the ids of the nodes stored for the board, and a source different
\* from its target.
C25_StoredEdgesSound ==
  board # <<>> =>
    \A e \in board[1].edges :
      /\ e.source \in NodeIds(board[1])
      /\ e.target \in NodeIds(board[1])
      /\ e.source # e.target

----------------------------------------------------------------------------
\* Properties of sanitizeBoard (SpecSanitize).

OutNodeIds == { call.ret.nodes[k].id : k \in 1..Len(call.ret.nodes) }

\* every edge of the result has non-empty endpoints that are ids of nodes of
\* the result, and is no self-loop
OutSound ==
  \A j \in 1..Len(call.ret.edges) :
    LET o == call.ret.edges[j]
    IN /\ o.sourceId # "" /\ o.targetId # ""
       /\ o.sourceId \in OutNodeIds /\ o.targetId \in OutNodeIds
       /\ o.sourceId # o.targetId

\* the positions, among the first n incoming edges, of the edges that have
\* both endpoints, among the ids of the result's nodes, and differing
GoodIdx(n) ==
  { i \in 1..Len(call.arg.edges) :
      /\ i <= n
      /\ StringOr(call.arg.edges[i].sourceId) # ""
      /\ StringOr(call.arg.edges[i].targetId) # ""
      /\ StringOr(call.arg.edges[i].sourceId) \in OutNodeIds
      /\ StringOr(call.arg.edges[i].targetId) \in OutNodeIds
      /\ StringOr(call.arg.edges[i].sourceId) # StringOr(call.arg.edges[i].targetId) }

\* the edges of the result are those of GoodIdx(n), in the incoming order
ExactlyGood(n) ==
  /\ Len(call.ret.edges) = Cardinality(GoodIdx(n))
  /\ \A i \in GoodIdx(n) :
       LET o == call.ret.edges[Cardinality({ j \in GoodIdx(n) : j <= i })]
       IN /\ o.sourceId = StringOr(call.arg.edges[i].sourceId)
          /\ o.targetId = StringOr(call.arg.edges[i].targetId)

\* the first n incoming nodes are all in the result, in order
NodesKept(n) ==
  /\ Len(call.ret.nodes) = (IF Len(call.arg.nodes) < n THEN Len(call.arg.nodes) ELSE n)
  /\ \A k \in 1..Len(call.ret.nodes) :
       call.arg.nodes[k].id.t = "string" => call.ret.nodes[k].id = call.arg.nodes[k].id.v

\* C26, as stated: the edges of the result are sound, they are exactly the
\* incoming edges that are sound, in order, and no node is left out
\* because of an edge.
C26_SanitizeExact ==
  call.done =>
    /\ OutSound
    /\ ExactlyGood(Len(call.arg.edges))
    /\ NodesKept(MaxNodes)

\* C26, amended: the edges of the result are sound, they are exactly the
\* sound ones among the first MaxEdges incoming edges (20000 in the code),
\* in order, an edge after those being left out sound or not; and no node
\* is left out because of an edge.
C26_SanitizeExactWithinLimits ==
  call.done =>
    /\ OutSound
    /\ ExactlyGood(MaxEdges)
    /\ NodesKept(MaxNodes)

\* sanitizeBoard has returned; of the edges within the limit one was kept
\* and one dropped, and a sound edge beyond the limit was left out.
C26_Witness ==
  /\ call.done
  /\ Len(call.arg.edges) > MaxEdges
  /\ Len(call.ret.edges) = 1
  /\ (MaxEdges + 1) \in GoodIdx(Len(call.arg.edges))

----------------------------------------------------------------------------
\* Properties of the local cache (SpecCache).

\* C28, as stated: loadCache(b) returns the value most recently passed to
\* saveCache(b, .), or null if none was.
C28_LoadReturnsLastPassed ==
  (call.fn = "loadCache" /\ call.read) => call.ret = call.passed[call.b]

\* C28, amended: loadCache(b) returns the value of the most recent
\* saveCache(b, .) whose write localStorage took, or null if there is none
\* or the item cannot be read; saveCache writes the item of its own
\* project whatever was there, leaves every other item as it is, and when
\* the write fails leaves everything as it is and does not throw.
C28_LoadReturnsLastStored ==
  /\ [](call.fn = "loadCache" =>
          call.ret = (IF call.read THEN call.kept[call.b] ELSE <<>>))
  /\ [][call'.fn = "saveCache" =>
          /\ ~call'.threw
          /\ \A k \in DOMAIN localStorage :
               k # cacheKey(call'.b) =>
                 (k \in DOMAIN localStorage' /\ localStorage'[k] = localStorage[k])
          /\ \A k \in DOMAIN localStorage' :
               k \in DOMAIN localStorage \/ k = cacheKey(call'.b)
          /\ \/ localStorage' = localStorage /\ call'.kept = call.kept
             \/ /\ getItem(localStorage', cacheKey(call'.b))
                     = <<JsonText(call'.passed[call'.b][1])>>
                /\ call'.kept[call'.b] = call'.passed[call'.b]]_vars

\* A save was stored, a later save of the same project failed, a save of
\* the other project was stored, and loadCache returned the stored value.
C28_Witness ==
  /\ call.fn = "loadCache" /\ call.read
  /\ call.ret # <<>>
  /\ call.passed[call.b] # call.kept[call.b]
  /\ \A p \in Projects : call.kept[p] # <<>>

----------------------------------------------------------------------------
\* Hydration against a missing board (SpecHydrate).

\* C29: when hydrate's fetch is answered 404, the client goes on to create
\* the board, and the board it creates has no nodes and no edges and its
\* tag becomes the tag the client expects (boardVersionRef and the saver's
\* lastVersion).
C29_Hydrate404Creates ==
  [][/\ (hyd = "fetch" /\ board = <<>> /\ hyd' \notin {"fetch", "failed"})
          => hyd' = "create"
     /\ (hyd = "create" /\ hyd' = "created")
          => /\ board' # <<>>
             /\ board'[1].nodes = {} /\ board'[1].edges = {}
             /\ boardVersionRef' = makeVersion(board'[1])
             /\ lastVersion' = makeVersion(board'[1])]_vars

----------------------------------------------------------------------------
\* The newer-than test against the store's write order (SpecReconcile).

\* the tags the store has produced for the board: those of the snapshots
\* it published and the one of the row as it is
StoreTags == { p.snapshot.version : p \in wire } \cup { makeVersion(board[1]) }

\* C30: of two tags the store produced for the board, the one of the later
\* write (larger counter) is strictly newer for applyRemoteSnapshot's test:
\* it is not <= the earlier one as a string.
C30_NewerThanAgreesWithWriteOrder ==
  \A t1, t2 \in StoreTags :
    WrittenBefore(t1, t2) => ~VersionLeq(t2, t1)

----------------------------------------------------------------------------
\* The client's two copies of the known version (SpecSaver).

\* C31: whenever no flush is in flight the saver's expected tag
\* (lastVersion) equals the view's known tag (boardVersionRef), and no step
\* replaces the saver's expected tag by the tag of an earlier write.
C31_VersionCopiesAgree ==
  /\ []((flights = <<>> /\ ~busy) => lastVersion = boardVersionRef)
  /\ [][(lastVersion # NoTag /\ lastVersion' # NoTag)
          => ~WrittenBefore(lastVersion', lastVersion)]_vars

----------------------------------------------------------------------------
\* Conflicts only for stale tags (SpecStore).

\* request q was answered with success and tag t, and the board has not
\* been written since that answer was read from it (the row's counter,
\* which every write raises, is still the one of t)
ReturnedAndCurrent(q, t) ==
  /\ reqs[q].pc = "done" /\ reqs[q].status \in {200, 201}
  /\ reqs[q].tag = t /\ t # NoTag
  /\ board # <<>> /\ board[1].version = t.n

\* C32: a PUT that carries the tag a successful GET, POST or PUT returned,
\* the board not written since, is not answered 409.
C32_NoSpuriousConflict ==
  [][\A r \in ReqIds :
       (reqs[r].pc = "idle" /\ reqs'[r].method = "PUT"
          /\ \E q \in ReqIds : ReturnedAndCurrent(q, reqs'[r].version))
         => reqs'[r].status # 409]_vars

\* A PUT carrying the tag a POST returned and one carrying the tag a PUT
\* returned have passed the version check, the latter just now.
C32_Witness ==
  \E q1, r1, r2 \in ReqIds :
    /\ reqs[q1].method = "POST" /\ reqs[q1].status = 201
    /\ reqs[r1].method = "PUT" /\ reqs[r1].status = 200
    /\ reqs[r1].version = reqs[q1].tag
    /\ reqs[r2].method = "PUT" /\ reqs[r2].pc = "txn"
    /\ ReturnedAndCurrent(r1, reqs[r2].version)

----------------------------------------------------------------------------
\* No stuck write (SpecLiveAll).

\* C33: with a pending snapshot, a flush is in flight or the debounce timer
\* or the retry timer is armed; a flush attempt (flush takes the pending
\* snapshot and calls saveBoard) eventually follows, and busy is eventually
\* cleared.
C33_NoStuckWrite ==
  /\ [](pending # <<>> => (busy \/ timerLive > 0 \/ retryLive # <<>>))
  /\ (pending # <<>> ~> (busy /\ pending = <<>>))
  /\ (busy ~> ~busy)

\* A request failed, its payload went back to pending, the retry timer
\* fired and flush has taken it: the saver is busy with the second attempt.
C33_Witness ==
  /\ busy /\ pending = <<>>
  /\ sent # <<>> /\ sent[1].src = "netfail"
  /\ retryLive = <<>> /\ timerLive = 0

----------------------------------------------------------------------------
\* A passive viewer (SpecHydrate).

\* C34: as long as the user has made no edit (here: nothing has happened
\* but the hydration itself, which showed no cached snapshot: no edit, no
\* write of another client, no failed request), schedule() has not been
\* called and no PUT has been sent.
C34_PassiveViewerSilent ==
  (nEnv = 0 /\ ~hadCachedSnapshot) => (schedNo = 0 /\ nPuts = 0 /\ pending = <<>>)

----------------------------------------------------------------------------
\* The queue of update packets (SpecOutbox).

\* the pt:update packet sendRealtimeUpdate builds from a snapshot
PacketOf(snapshot) ==
  UpdateFrame([projectId |-> ProjectId, version |-> snapshot.version,
               sourceId |-> ClientId, snapshot |-> <<snapshot>>])

\* C35: a packet produced while the socket is not open goes to the end of
\* the queue and is not sent; when the socket opens, the join message is
\* sent, then every queued packet once, in the order produced, and the
\* queue is empty afterwards; the queue changes in no other way, and a
\* frame is sent only on the socket that is open.
C35_QueuedUntilOpen ==
  /\ [][(call' # call /\ call'[1].snapshot.version # NoTag /\ ~call'[1].open)
          => /\ pendingUpdates' = Append(pendingUpdates, PacketOf(call'[1].snapshot))
             /\ up' = up]_vars
  /\ [][(ws.state = "connecting" /\ ws'.state = "open")
          => /\ up'[ws.id] = <<JoinFrame(ProjectId)>> \o pendingUpdates
             /\ pendingUpdates' = <<>>]_vars
  /\ [][pendingUpdates' # pendingUpdates
          => \/ call' # call /\ ws.state # "open"
             \/ ws.state = "connecting" /\ ws'.state = "open"]_vars
  /\ [][\A k \in Conns \ {Foreign} :
          Len(up'[k]) > Len(up[k]) => (k = ws'.id /\ ws'.state = "open")]_vars

\* Two packets of different versions were queued while there was no open
\* socket, and the socket that then opened carries the join message and
\* the two packets in that order.
C35_Witness ==
  /\ ws.state = "open" /\ pendingUpdates = <<>>
  /\ Len(up[ws.id]) = 3
  /\ up[ws.id][1] = JoinFrame(ProjectId)
  /\ up[ws.id][2].type = "pt:update" /\ up[ws.id][3].type = "pt:update"
  /\ WrittenBefore(up[ws.id][2].payload.version, up[ws.id][3].payload.version)
  /\ call # <<>> /\ ~call[1].open /\ up[ws.id][3] = PacketOf(call[1].snapshot)

----------------------------------------------------------------------------
\* Private boards of the standalone server (SpecServer).

\* the row is private and owned by a user other than u
PrivateOfOther(row, u) ==
  row.visibility = "private" /\ row.userId # NoUser /\ row.userId # u

\* C36: a GET is never answered with a board that is private and owned by
\* a user other than the requester, and a GET that finds a board without
\* owner or a public one is not turned away.
C36_PrivateBoardsHidden ==
  /\ [](\A r \in ReqIds :
          (reqs[r].method = "GET" /\ reqs[r].status = 200)
            => ~PrivateOfOther(reqs[r].ret[1], reqs[r].user))
  /\ [][\A r \in ReqIds :
          (/\ reqs[r].pc = "idle" /\ reqs'[r].method = "GET"
           /\ board # <<>>
           /\ (board[1].userId = NoUser \/ board[1].visibility = "public"))
            => reqs'[r].pc = "read"]_vars

\* C37: a save never changes the owner of a board owned by a user other
\* than the caller, and never replaces the nodes and edges of a private
\* board owned by a user other than the caller.
C37_SaveRespectsOwner ==
  [][\A r \in ReqIds :
       (/\ reqs[r].pc = "idle" /\ reqs'[r].method = "POST"
        /\ board # <<>>
        /\ board[1].userId # NoUser /\ board[1].userId # reqs'[r].user)
         => /\ board'[1].userId = board[1].userId
            /\ board[1].visibility = "private" => board'[1].nodes = board[1].nodes]_vars

----------------------------------------------------------------------------
\* normalizeTags (SpecTags).

\* C38: normalizeTags applied to its own result gives that result again;
\* the result has at most the maximal number of entries, no entry twice,
\* no empty string, and every entry is lower-case, does not begin with
\* '#' and neither begins nor ends with a blank.
C38_NormalizeTagsCanonical ==
  call.done =>
    /\ normalizeTags(call.ret) = call.ret
    /\ Len(call.ret) <= MaxTagCount
    /\ \A i, j \in 1..Len(call.ret) : i # j => call.ret[i] # call.ret[j]
    /\ \A i \in 1..Len(call.ret) :
         LET t == call.ret[i].v
         IN /\ t # <<>>
            /\ \A k \in 1..Len(t) : t[k] # "A"
            /\ Head(t) # "#"
            /\ Head(t) # " " /\ t[Len(t)] # " "

====
